---- MODULE Spec2Model ----
(***************************************************************************)
(* Checkpointed batch file-processing engine of the WordPress connector:   *)
(* the checkpoint ledger (state_mangement.py), the text transforms and the *)
(* two checkpointed walkers check_and_remove_links / repairing_empty_links *)
(* (utils.py).                                                             *)
(*                                                                         *)
(* Text is a sequence of one-character strings.  Two symbols stand for a   *)
(* fixed multi-character literal of the source's regular expressions:      *)
(*   "H"  the scheme prefix "http://" (pattern  https?://),                *)
(*   "X"  a deny-listed host literal (example3.org).                       *)
(* "\n" is the only line boundary of the alphabet.                         *)
(***************************************************************************)
EXTENDS Integers, Sequences, FiniteSets, TLC

NL == "\n"

\* ---------------------------------------------------------------- bounds
MaxRuns == 2
MaxPrior == 3
MaxRecords == 3

\* ------------------------------------------------------- generic helpers
Range(s) == {s[i] : i \in DOMAIN s}

Drop(s, n) == SubSeq(s, n + 1, Len(s))

StartsWithAt(text, i, u) ==
    /\ i + Len(u) - 1 <= Len(text)
    /\ SubSeq(text, i, i + Len(u) - 1) = u

IsSubstring(u, text) == \E i \in 1..Len(text) : StartsWithAt(text, i, u)

\* str.endswith
EndsWith(s, suffix) ==
    /\ Len(s) >= Len(suffix)
    /\ SubSeq(s, Len(s) - Len(suffix) + 1, Len(s)) = suffix

MdExt == <<".", "m", "d">>

\* index of the first occurrence of c in s at or after i, 0 if none
RECURSIVE FirstAt(_, _, _)
FirstAt(s, i, c) ==
    IF i > Len(s) THEN 0
    ELSE IF s[i] = c THEN i
    ELSE FirstAt(s, i + 1, c)

\* ------------------------------------------------------ checkpoint ledger
\* A file on disk: absent, or present with a content.
AbsentFile == [exists |-> FALSE, content |-> <<>>]
FileOf(c) == [exists |-> TRUE, content |-> c]

\* str.splitlines(): a "\n" terminates a line; a last line without "\n"
\* is a line when it is not empty.
RECURSIVE SplitLines(_)
SplitLines(s) ==
    IF s = <<>> THEN <<>>
    ELSE LET k == FirstAt(s, 1, NL)
         IN  IF k = 0 THEN <<s>>
             ELSE <<SubSeq(s, 1, k - 1)>> \o SplitLines(Drop(s, k))

ReadCheckpoint_ignoresFile(f) == {}

ReadCheckpoint(f) ==
    IF ~f.exists THEN {}
    ELSE Range(SplitLines(f.content))

UpdateCheckpoint_truncates(f, file_name) == FileOf(file_name \o <<NL>>)

UpdateCheckpoint_noNewline(f, file_name) == FileOf(f.content \o file_name)

\* open(checkpoint_file, 'a'); write(file_name + "\n")
UpdateCheckpoint(f, file_name) == FileOf(f.content \o file_name \o <<NL>>)

\* ----------------------------------------------------------- URL extractor
Whitespace == {" ", NL}
UrlStop == Whitespace \cup {",", ";", ")"}
Scheme == "H"
\* https?:// : "H" stands for http://, "S" for https://
Schemes == {Scheme, "S"}
\* "X" stands for example3.org, "Y" for example.example2.com
DenyHosts == {"X", "Y"}

RECURSIVE RunEnd_stopsAtWhitespace(_, _)
RunEnd_stopsAtWhitespace(text, i) ==
    IF i + 1 <= Len(text) /\ text[i + 1] \notin Whitespace
    THEN RunEnd_stopsAtWhitespace(text, i + 1)
    ELSE i

\* last index of the maximal run of non-stop characters starting at i
RECURSIVE RunEnd(_, _)
RunEnd(text, i) ==
    IF i + 1 <= Len(text) /\ text[i + 1] \notin UrlStop
    THEN RunEnd(text, i + 1)
    ELSE i

\* the pattern https?://(?!deny)[^\s,;)]+ matches at position i
UrlMatchAt(text, i) ==
    /\ text[i] \in Schemes
    /\ i + 1 <= Len(text)
    /\ text[i + 1] \notin DenyHosts
    /\ text[i + 1] \notin UrlStop

\* re.findall: leftmost, non-overlapping matches, in text order
RECURSIVE FindAllUrls(_, _)
FindAllUrls(text, i) ==
    IF i > Len(text) THEN <<>>
    ELSE IF UrlMatchAt(text, i)
         THEN LET e == RunEnd(text, i + 1)
              IN  <<SubSeq(text, i, e)>> \o FindAllUrls(text, e + 1)
         ELSE FindAllUrls(text, i + 1)

\* list(set(urls)): the distinct matches; the list order is the set's
extract_urls_from_text(text) == Range(FindAllUrls(text, 1))

\* --------------------------------------------------------- content mutator
RECURSIVE RemoveAll_firstOccurrence(_, _, _)
RemoveAll_firstOccurrence(text, i, u) ==
    IF i > Len(text) THEN <<>>
    ELSE IF StartsWithAt(text, i, u)
         THEN SubSeq(text, i + Len(u), Len(text))
         ELSE <<text[i]>> \o RemoveAll_firstOccurrence(text, i + 1, u)

\* re.sub(re.escape(u), '', content)
RECURSIVE RemoveAll(_, _, _)
RemoveAll(text, i, u) ==
    IF i > Len(text) THEN <<>>
    ELSE IF StartsWithAt(text, i, u)
         THEN RemoveAll(text, i + Len(u), u)
         ELSE <<text[i]>> \o RemoveAll(text, i + 1, u)

RECURSIVE SkipSpace(_, _)
SkipSpace(text, i) ==
    IF i <= Len(text) /\ text[i] \in Whitespace
    THEN SkipSpace(text, i + 1)
    ELSE i

\* \[([^\]]+)\]\(\s*\) matched at i: <<index of "]", index of ")">>,
\* <<0, 0>> when there is no match at i
EmptyLinkAt(text, i) ==
    IF text[i] # "[" THEN <<0, 0>>
    ELSE LET k == FirstAt(text, i + 1, "]")
         IN  IF k < i + 2 \/ k + 1 > Len(text) \/ text[k + 1] # "("
             THEN <<0, 0>>
             ELSE LET m == SkipSpace(text, k + 2)
                  IN  IF m <= Len(text) /\ text[m] = ")"
                      THEN <<k, m>>
                      ELSE <<0, 0>>

RECURSIVE RepairEmptyLinks_firstOnly(_, _)
RepairEmptyLinks_firstOnly(text, i) ==
    IF i > Len(text) THEN <<>>
    ELSE LET km == EmptyLinkAt(text, i)
         IN  IF km[1] = 0
             THEN <<text[i]>> \o RepairEmptyLinks_firstOnly(text, i + 1)
             ELSE SubSeq(text, i + 1, km[1] - 1)
                      \o SubSeq(text, km[2] + 1, Len(text))

\* re.sub(link_pattern, r'\1', content)
RECURSIVE RepairEmptyLinks(_, _)
RepairEmptyLinks(text, i) ==
    IF i > Len(text) THEN <<>>
    ELSE LET km == EmptyLinkAt(text, i)
         IN  IF km[1] = 0
             THEN <<text[i]>> \o RepairEmptyLinks(text, i + 1)
             ELSE SubSeq(text, i + 1, km[1] - 1)
                      \o RepairEmptyLinks(text, km[2] + 1)

\* the loop of remove_failing_links_from_file over failing_urls
RECURSIVE RemoveFailingLinks(_, _)
RemoveFailingLinks(content, failing_urls) ==
    IF failing_urls = <<>> THEN content
    ELSE RemoveFailingLinks(
             RepairEmptyLinks(RemoveAll(content, 1, Head(failing_urls).url), 1),
             Tail(failing_urls))

\* ---------------------------------------------------- nested-link finder
NoLineBreak(text, a, b) == \A j \in a..b : text[j] # NL

\* the indices k at which \[(.*?)\]\( can end its first group when the match
\* starts at i and the rest of the pattern can still match
LinkTextEnds(text, i) ==
    {k \in (i + 1)..(Len(text) - 1) :
        /\ text[k] = "]"
        /\ text[k + 1] = "("
        /\ NoLineBreak(text, i + 1, k - 1)
        /\ \E m \in (k + 2)..Len(text) :
               text[m] = ")" /\ NoLineBreak(text, k + 2, m - 1)}

Least(S) == CHOOSE x \in S : \A y \in S : x <= y

\* \[(.*?)\]\((.*?)\) matched at i, both groups as short as they can be:
\* <<index of "]", index of ")">>, <<0, 0>> when there is no match at i
MdLinkAt(text, i) ==
    IF text[i] # "[" \/ LinkTextEnds(text, i) = {} THEN <<0, 0>>
    ELSE LET k == Least(LinkTextEnds(text, i))
         IN  <<k, FirstAt(text, k + 2, ")")>>

\* re.findall(pattern, text): the pairs (link text, link url) of the
\* leftmost non-overlapping matches
RECURSIVE FindAllLinks(_, _)
FindAllLinks(text, i) ==
    IF i > Len(text) THEN <<>>
    ELSE LET km == MdLinkAt(text, i)
         IN  IF km[1] = 0 THEN FindAllLinks(text, i + 1)
             ELSE << <<SubSeq(text, i + 1, km[1] - 1),
                       SubSeq(text, km[1] + 2, km[2] - 1)>> >>
                      \o FindAllLinks(text, km[2] + 1)

\* the loop over links: a pair is kept when its link text holds a match
RECURSIVE KeepNested(_)
KeepNested(links) ==
    IF links = <<>> THEN <<>>
    ELSE (IF FindAllLinks(Head(links)[1], 1) # <<>>
          THEN <<Head(links)>> ELSE <<>>)
             \o KeepNested(Tail(links))

find_nested_links_in_file(text) == KeepNested(FindAllLinks(text, 1))

\* ---------------------------------------------------- link liveness checker
None == -1

Outcome(raised, has_response, status) ==
    [raised |-> raised, has_response |-> has_response, status |-> status]

\* what one requests.head call can do
ProbeOutcomes ==
    { Outcome(FALSE, TRUE, 200),
      Outcome(FALSE, TRUE, 404),
      Outcome(TRUE, FALSE, None) }

\* every kind of result of one requests.head call: a response with status
\* 200, 301 or 404, a RequestException without a response, one with a response
HeadOutcomes ==
    ProbeOutcomes \cup {Outcome(FALSE, TRUE, 301), Outcome(TRUE, TRUE, 503)}

CheckOne_dropsExceptions(url, o) ==
    IF ~o.raised /\ o.status # 200
    THEN <<[url |-> url, status_code |-> o.status]>>
    ELSE <<>>

\* the body of the for loop of check_urls for one url
CheckOne(url, o) ==
    IF ~o.raised
    THEN IF o.status # 200
         THEN <<[url |-> url, status_code |-> o.status]>>
         ELSE <<>>
    ELSE IF o.has_response
         THEN <<[url |-> url, status_code |-> o.status]>>
         ELSE <<[url |-> url, status_code |-> None]>>

\* the requests.head calls of the loop of check_urls, in the order issued:
\* one per iteration, none repeated
RECURSIVE HeadCalls(_)
HeadCalls(urls) ==
    IF urls = <<>> THEN <<>>
    ELSE <<Head(urls)>> \o HeadCalls(Tail(urls))

RECURSIVE check_urls_lastFirst(_, _)
check_urls_lastFirst(urls, out) ==
    IF urls = <<>> THEN <<>>
    ELSE check_urls_lastFirst(Tail(urls), out)
             \o CheckOne(Head(urls), out[Head(urls)])

\* check_urls over the list urls, out[u] being what the probe of u does
RECURSIVE check_urls(_, _)
check_urls(urls, out) ==
    IF urls = <<>> THEN <<>>
    ELSE CheckOne(Head(urls), out[Head(urls)]) \o check_urls(Tail(urls), out)

\* the lists list(set(...)) can produce for the set S
Orderings(S) ==
    {s \in [1..Cardinality(S) -> S] : \A i, j \in DOMAIN s : s[i] = s[j] => i = j}

\* ------------------------------------------------------------ report writer
ReportHeader == [kind |-> "header", file |-> <<>>, url |-> <<>>, status |-> 0]

ReportRow(File, entry) ==
    [kind |-> "row", file |-> File, url |-> entry.url, status |-> entry.status_code]

RECURSIVE ReportRows(_, _)
ReportRows(File, failing_urls_list) ==
    IF failing_urls_list = <<>> THEN <<>>
    ELSE <<ReportRow(File, Head(failing_urls_list))>>
             \o ReportRows(File, Tail(failing_urls_list))

save_failing_urls_to_csv_overwrites(csv, File, failing_urls_list) ==
    FileOf(<<ReportHeader>> \o ReportRows(File, failing_urls_list))

save_failing_urls_to_csv_alwaysHeader(csv, File, failing_urls_list) ==
    FileOf(csv.content \o <<ReportHeader>> \o ReportRows(File, failing_urls_list))

\* mode 'a' if the csv exists, else 'w' with the header row first
save_failing_urls_to_csv(csv, File, failing_urls_list) ==
    IF csv.exists
    THEN FileOf(csv.content \o ReportRows(File, failing_urls_list))
    ELSE FileOf(<<ReportHeader>> \o ReportRows(File, failing_urls_list))

\* the batch report failing_links.csv: columns File, Failing URL
BatchHeader == [kind |-> "header", file |-> <<>>, url |-> <<>>]

RECURSIVE BatchRows(_)
BatchRows(failing_links) ==
    IF failing_links = <<>> THEN <<>>
    ELSE <<[kind |-> "row", file |-> Head(failing_links)[1],
            url |-> Head(failing_links)[2]]>>
             \o BatchRows(Tail(failing_links))

\* df.to_csv(csv_file, mode='a', index=False, header=not os.path.exists(csv_file))
FlushBatch(csv, failing_links) ==
    IF csv.exists
    THEN FileOf(csv.content \o BatchRows(failing_links))
    ELSE FileOf(<<BatchHeader>> \o BatchRows(failing_links))

\* the nested-links report: columns File, Nested Link Text, Nested Link URL
NestedHeader == [kind |-> "header", file |-> <<>>, text |-> <<>>, url |-> <<>>]

RECURSIVE NestedRows(_)
NestedRows(data) ==
    IF data = <<>> THEN <<>>
    ELSE <<[kind |-> "row", file |-> Head(data)[1], text |-> Head(data)[2],
            url |-> Head(data)[3]]>>
             \o NestedRows(Tail(data))

write_to_csv_appends(csv, data) ==
    IF csv.exists
    THEN FileOf(csv.content \o NestedRows(data))
    ELSE FileOf(<<NestedHeader>> \o NestedRows(data))

\* write_to_csv when nothing fails: open(output_file, 'w') drops what csv
\* held, then the header row and the rows of data
write_to_csv(csv, data) == FileOf(<<NestedHeader>> \o NestedRows(data))

\* ---------------------------------------------------------------- error log
LogHeader == [kind |-> "header", file |-> 0, msg |-> "Error Log:"]

\* str(e): one value stands for the text of the exception
ErrorMessage == "e"

\* the except branch shared by remove_failing_links_from_file and
LogError_overwrites(log, file_path, msg) ==
    FileOf(<<LogHeader, [kind |-> "error", file |-> file_path, msg |-> msg]>>)

LogError_headerEveryTime(log, file_path, msg) ==
    FileOf(log.content
               \o <<LogHeader, [kind |-> "error", file |-> file_path, msg |-> msg]>>)

\* repairing_empty_links: create the log with its header when it does not
\* exist, then append one line "Error in file <path>: <message>"
LogError(log, file_path, msg) ==
    LET base == IF log.exists THEN log.content ELSE <<LogHeader>>
    IN  FileOf(base \o <<[kind |-> "error", file |-> file_path, msg |-> msg]>>)

\* ------------------------------------------------------- the directory tree
\* os.walk order: the files of the root, then those of the sub-directory.
\* Two Markdown files share the bare name a.md.
Paths ==
    << [dir |-> "root", name |-> <<"a", ".", "m", "d">>],
       [dir |-> "root", name |-> <<"n", ".", "t", "x", "t">>],
       [dir |-> "sub",  name |-> <<"a", ".", "m", "d">>],
       [dir |-> "sub",  name |-> <<"b", ".", "m", "d">>] >>

NFiles == Len(Paths)
Name(i) == Paths[i].name
MdFiles == {i \in 1..NFiles : EndsWith(Name(i), MdExt)}

\* contents a Markdown file can start with
LinkText == <<"[", "t", "]", "(", "H", "b", ")">>
EmptyLinkText == <<"[", "t", "]", "(", ")">>
FileTexts == {LinkText, EmptyLinkText}
OtherText == <<"H", "c">>

\* ------------------------------------------------------------------- state
VARIABLES
    files,            \* content of every file of the tree, by walk position
    cp,               \* checkpoint.txt
    report,           \* failing_urls.csv
    errlog,           \* decoding_log_errors.txt
    pc,               \* where the running function stands ("idle": none runs)
    kind,             \* "check" | "repair": the function that runs
    idx,              \* position of the traversal in Paths
    processed_files,  \* the set read_checkpoint returned
    file_count,
    failing_urls,     \* result of check_urls for the file in flight
    buffer,           \* content handed to the open 'w' handle, not yet on disk
    runs,             \* runs started so far
    orig,             \* the tree as it was before the first run
    start,            \* the checkpoint file as it was at the beginning
    nrec,             \* update_checkpoint calls made directly on the ledger
    touched,          \* files this run has read
    probed,           \* URLs this run has probed
    returned,         \* identifiers whose update_checkpoint call returned
    needs,            \* files checkpointed with a non-empty failing list
    mutated,          \* files whose dead-link mutation was written
    reported,         \* files whose failing links were appended to the report
    orphans,          \* files in flight, checkpointed, mutation not begun, at a crash
    torn,             \* files in flight at a crash inside the mutation's write
    afterDone,        \* this check run started right after a completed check run
    lastDone,         \* the last run was a check run and it completed
    exit,             \* how the last run ended: returned, raised or interrupted
    text,             \* argument of the function under examination
    op,               \* the text function applied last
    result,           \* what it returned
    once,             \* what the last application was given, when not text
    url_list,         \* the list extract_urls_from_text returned
    outcome,          \* what the HEAD probe of each URL of the file in flight does
    probes,           \* the HEAD requests check_urls issued, in order
    checked,          \* files whose URLs were probed in some run
    kinds,            \* the functions run so far
    batch_size,       \* argument of find_failing_links_and_update_csv
    failing_links,    \* its accumulated records
    batch_csv,        \* failing_links.csv
    flushed,          \* file_count at each of its flushes, in order
    pages,            \* the posts of the category, page by page, on the site
    page,             \* page number get_wordpress_posts_by_category asks next
    all_posts,        \* the posts it accumulated
    output_file,      \* the file write_to_csv writes
    json_file,        \* the JSON file of posts: written by the listing, read by the update
    calls,            \* the update_wordpress_post calls made so far, in order
    responses,        \* the list update_blog_posts_from_folder builds
    errors,           \* the list update_blog_posts_from_file builds
    error_log         \* error_log.txt

disk == <<files, cp, report, errlog>>
local == <<pc, kind, idx, processed_files, file_count, failing_urls, buffer>>
ledgerHist == <<orig, start, nrec>>
runHist == <<touched, probed>>
ckptHist == <<needs, mutated, reported>>
crashHist == <<orphans, torn>>
pureVars == <<text, op, result, once, url_list, probes>>
textVars == <<pureVars, outcome>>
batchVars == <<batch_size, failing_links, batch_csv, flushed>>
apiVars == <<pages, page, all_posts>>
updVars == <<json_file, calls, responses, errors, error_log>>
moreVars == <<batchVars, apiVars, output_file, updVars>>
vars == <<disk, local, runs, ledgerHist, runHist, returned, ckptHist,
          crashHist, afterDone, lastDone, exit, checked, kinds, textVars,
          moreVars>>

InitialTrees ==
    {f \in [1..NFiles -> FileTexts \cup {OtherText}] :
        \A i \in 1..NFiles :
            IF i \in MdFiles THEN f[i] \in FileTexts ELSE f[i] = OtherText}

HistInit ==
    /\ runs = 0
    /\ nrec = 0
    /\ touched = {}
    /\ probed = {}
    /\ returned = {}
    /\ needs = {}
    /\ mutated = {}
    /\ reported = {}
    /\ orphans = {}
    /\ torn = {}
    /\ afterDone = FALSE
    /\ lastDone = FALSE
    /\ exit = "none"
    /\ checked = {}
    /\ kinds = {}

\* no text function is under examination
TextInit ==
    /\ text = <<>>
    /\ op = "none"
    /\ result = <<>>
    /\ once = <<>>
    /\ url_list = <<>>
    /\ outcome = <<>>
    /\ probes = <<>>

\* no post file, no update made, no error_log.txt
UpdInit ==
    /\ json_file = AbsentFile
    /\ calls = <<>>
    /\ responses = <<>>
    /\ errors = <<>>
    /\ error_log = AbsentFile

\* no batch report, no category listing, no nested-links report in progress
MoreInit ==
    /\ UpdInit
    /\ batch_size = 1
    /\ failing_links = <<>>
    /\ batch_csv = AbsentFile
    /\ flushed = <<>>
    /\ pages = <<>>
    /\ page = 1
    /\ all_posts = <<>>
    /\ output_file = AbsentFile

LocalInit ==
    /\ kind = "none"
    /\ idx = 0
    /\ processed_files = {}
    /\ file_count = 0
    /\ failing_urls = <<>>
    /\ buffer = <<>>

\* no run yet, no checkpoint, report or error log on disk
Init ==
    /\ files \in InitialTrees
    /\ orig = files
    /\ cp = AbsentFile
    /\ start = cp
    /\ report = AbsentFile
    /\ errlog = AbsentFile
    /\ pc = "idle"
    /\ LocalInit
    /\ HistInit
    /\ TextInit
    /\ MoreInit

\* -------------------------------------------------------- the batch walkers
ShouldProcess_ignoresCheckpoint(file, processed) == EndsWith(file, MdExt)

ShouldProcess_anyExtension(file, processed) == file \notin processed

\* file.endswith('.md') and file not in processed_files
ShouldProcess(file, processed) ==
    /\ EndsWith(file, MdExt)
    /\ file \notin processed

\* the traversal moves to the next file
NextFile ==
    /\ pc' = "walk"
    /\ idx' = idx + 1
    /\ failing_urls' = <<>>
    /\ buffer' = <<>>

\* check_and_remove_links / repairing_empty_links is called: read_checkpoint
StartRun(k) ==
    /\ pc = "idle"
    /\ runs < MaxRuns
    /\ runs' = runs + 1
    /\ pc' = "walk"
    /\ kind' = k
    /\ idx' = 1
    /\ processed_files' = ReadCheckpoint(cp)
    /\ file_count' = 0
    /\ afterDone' = (lastDone /\ k = "check")
    /\ lastDone' = FALSE
    /\ UNCHANGED <<disk, failing_urls, buffer, ledgerHist, runHist, returned,
                   ckptHist, crashHist>>
    /\ exit' = "none"
    /\ kinds' = kinds \cup {k}
    /\ UNCHANGED <<checked, textVars, moreVars>>

\* the if of the inner loop is false: not Markdown, or already checkpointed
SkipFile ==
    /\ pc = "walk"
    /\ idx <= NFiles
    /\ ~ShouldProcess(Name(idx), processed_files)
    /\ idx' = idx + 1
    /\ UNCHANGED <<disk, pc, kind, processed_files, file_count, failing_urls,
                   buffer, runs, ledgerHist, runHist, returned, ckptHist,
                   crashHist, afterDone, lastDone>>
    /\ UNCHANGED <<exit, checked, kinds, textVars, moreVars>>

\* check_and_remove_links, lines 264-272: read, extract, probe
ProbeFile ==
    /\ pc = "walk"
    /\ kind = "check"
    /\ idx <= NFiles
    /\ ShouldProcess(Name(idx), processed_files)
    /\ file_count' = file_count + 1
    /\ LET urls == extract_urls_from_text(files[idx])
       IN  /\ \E order \in Orderings(urls) : \E out \in [urls -> ProbeOutcomes] :
                 /\ failing_urls' = check_urls(order, out)
                 /\ outcome' = out
           /\ probed' = probed \cup urls
    /\ touched' = touched \cup {idx}
    /\ pc' = "ckpt"
    /\ UNCHANGED <<disk, kind, idx, processed_files, buffer, runs, ledgerHist,
                   returned, ckptHist, crashHist, afterDone, lastDone>>
    /\ checked' = checked \cup {idx}
    /\ UNCHANGED <<exit, kinds, pureVars, moreVars>>

\* check_and_remove_links, line 273, and the test of line 275
Checkpoint ==
    /\ pc = "ckpt"
    /\ cp' = UpdateCheckpoint(cp, Name(idx))
    /\ returned' = returned \cup {Name(idx)}
    /\ IF failing_urls = <<>>
       THEN /\ NextFile
            /\ needs' = needs
       ELSE /\ pc' = "mutate"
            /\ needs' = needs \cup {idx}
            /\ UNCHANGED <<idx, failing_urls, buffer>>
    /\ UNCHANGED <<files, report, errlog, kind, processed_files, file_count,
                   runs, ledgerHist, runHist, mutated, reported, crashHist,
                   afterDone, lastDone>>
    /\ outcome' = IF failing_urls = <<>> THEN <<>> ELSE outcome
    /\ UNCHANGED <<exit, checked, kinds, pureVars, moreVars>>

\* remove_failing_links_from_file: the read, the loop and open(file_path, 'w')
MutateOpen ==
    /\ pc = "mutate"
    /\ buffer' = RemoveFailingLinks(files[idx], failing_urls)
    /\ files' = [files EXCEPT ![idx] = <<>>]
    /\ pc' = "mwrite"
    /\ UNCHANGED <<cp, report, errlog, kind, idx, processed_files, file_count,
                   failing_urls, runs, ledgerHist, runHist, returned, ckptHist,
                   crashHist, afterDone, lastDone>>
    /\ UNCHANGED <<exit, checked, kinds, textVars, moreVars>>

\* remove_failing_links_from_file: the read or the open raises
MutateReadFails ==
    /\ pc = "mutate"
    /\ errlog' = LogError(errlog, idx, ErrorMessage)
    /\ pc' = "report"
    /\ UNCHANGED <<files, cp, report, kind, idx, processed_files, file_count,
                   failing_urls, buffer, runs, ledgerHist, runHist, returned,
                   ckptHist, crashHist, afterDone, lastDone>>
    /\ UNCHANGED <<exit, checked, kinds, textVars, moreVars>>

\* remove_failing_links_from_file: file.write and the close of the handle
MutateWrite ==
    /\ pc = "mwrite"
    /\ files' = [files EXCEPT ![idx] = buffer]
    /\ mutated' = mutated \cup {idx}
    /\ pc' = "report"
    /\ UNCHANGED <<cp, report, errlog, kind, idx, processed_files, file_count,
                   failing_urls, buffer, runs, ledgerHist, runHist, returned,
                   needs, reported, crashHist, afterDone, lastDone>>
    /\ UNCHANGED <<exit, checked, kinds, textVars, moreVars>>

\* remove_failing_links_from_file: the write raises after the truncation
MutateWriteFails ==
    /\ pc = "mwrite"
    /\ errlog' = LogError(errlog, idx, ErrorMessage)
    /\ pc' = "report"
    /\ UNCHANGED <<files, cp, report, kind, idx, processed_files, file_count,
                   failing_urls, buffer, runs, ledgerHist, runHist, returned,
                   ckptHist, crashHist, afterDone, lastDone>>
    /\ UNCHANGED <<exit, checked, kinds, textVars, moreVars>>

\* check_and_remove_links, line 277
SaveReport ==
    /\ pc = "report"
    /\ report' = save_failing_urls_to_csv(report, Name(idx), failing_urls)
    /\ reported' = reported \cup {idx}
    /\ NextFile
    /\ UNCHANGED <<files, cp, errlog, kind, processed_files, file_count, runs,
                   ledgerHist, runHist, returned, needs, mutated, crashHist,
                   afterDone, lastDone>>
    /\ outcome' = <<>>
    /\ UNCHANGED <<exit, checked, kinds, pureVars, moreVars>>

\* repairing_empty_links, lines 345-356: read, substitute, open(file_path, 'w')
RepairOpen ==
    /\ pc = "walk"
    /\ kind = "repair"
    /\ idx <= NFiles
    /\ ShouldProcess(Name(idx), processed_files)
    /\ file_count' = file_count + 1
    /\ touched' = touched \cup {idx}
    /\ buffer' = RepairEmptyLinks(files[idx], 1)
    /\ files' = [files EXCEPT ![idx] = <<>>]
    /\ pc' = "rckpt"
    /\ UNCHANGED <<cp, report, errlog, kind, idx, processed_files,
                   failing_urls, runs, ledgerHist, probed, returned, ckptHist,
                   crashHist, afterDone, lastDone>>
    /\ UNCHANGED <<exit, checked, kinds, textVars, moreVars>>

\* repairing_empty_links: the read or the open raises; logged, not checkpointed
RepairReadFails ==
    /\ pc = "walk"
    /\ kind = "repair"
    /\ idx <= NFiles
    /\ ShouldProcess(Name(idx), processed_files)
    /\ file_count' = file_count + 1
    /\ touched' = touched \cup {idx}
    /\ errlog' = LogError(errlog, idx, ErrorMessage)
    /\ NextFile
    /\ UNCHANGED <<files, cp, report, kind, processed_files, runs, ledgerHist,
                   probed, returned, ckptHist, crashHist, afterDone, lastDone>>
    /\ UNCHANGED <<exit, checked, kinds, textVars, moreVars>>

\* repairing_empty_links, lines 357-358: file.write (the text may stay in the
\* handle's buffer or go through to the disk) and update_checkpoint, inside
\* the with block
RepairCheckpoint ==
    /\ pc = "rckpt"
    /\ \E through \in BOOLEAN :
           files' = IF through THEN [files EXCEPT ![idx] = buffer] ELSE files
    /\ cp' = UpdateCheckpoint(cp, Name(idx))
    /\ returned' = returned \cup {Name(idx)}
    /\ pc' = "rclose"
    /\ UNCHANGED <<report, errlog, kind, idx, processed_files, file_count,
                   failing_urls, buffer, runs, ledgerHist, runHist, ckptHist,
                   crashHist, afterDone, lastDone>>
    /\ UNCHANGED <<exit, checked, kinds, textVars, moreVars>>

\* repairing_empty_links: the with block closes the handle, flushing it
RepairClose ==
    /\ pc = "rclose"
    /\ files' = [files EXCEPT ![idx] = buffer]
    /\ NextFile
    /\ UNCHANGED <<cp, report, errlog, kind, processed_files, file_count, runs,
                   ledgerHist, runHist, returned, ckptHist, crashHist,
                   afterDone, lastDone>>
    /\ UNCHANGED <<exit, checked, kinds, textVars, moreVars>>

\* repairing_empty_links: update_checkpoint raises inside the with block, whose
\* exit closes the handle and flushes the text; logged
RepairCheckpointFails ==
    /\ pc = "rckpt"
    /\ files' = [files EXCEPT ![idx] = buffer]
    /\ errlog' = LogError(errlog, idx, ErrorMessage)
    /\ NextFile
    /\ UNCHANGED <<cp, report, kind, processed_files, file_count, runs,
                   ledgerHist, runHist, returned, ckptHist, crashHist,
                   afterDone, lastDone>>
    /\ UNCHANGED <<exit, checked, kinds, textVars, moreVars>>

\* repairing_empty_links: file.write or the flush at the close raises; logged
RepairWriteFails ==
    /\ pc \in {"rckpt", "rclose"}
    /\ errlog' = LogError(errlog, idx, ErrorMessage)
    /\ NextFile
    /\ UNCHANGED <<files, cp, report, kind, processed_files, file_count, runs,
                   ledgerHist, runHist, returned, ckptHist, crashHist,
                   afterDone, lastDone>>
    /\ UNCHANGED <<exit, checked, kinds, textVars, moreVars>>

Idle ==
    /\ pc' = "idle"
    /\ kind' = "none"
    /\ idx' = 0
    /\ processed_files' = {}
    /\ file_count' = 0
    /\ failing_urls' = <<>>
    /\ buffer' = <<>>
    /\ touched' = {}
    /\ probed' = {}
    /\ afterDone' = FALSE

\* the traversal is over: the final print, the function returns
FinishRun ==
    /\ pc = "walk"
    /\ idx > NFiles
    /\ Idle
    /\ lastDone' = (kind = "check")
    /\ UNCHANGED <<disk, runs, ledgerHist, returned, ckptHist, crashHist>>
    /\ exit' = "returned"
    /\ UNCHANGED <<checked, kinds, textVars, moreVars>>

\* detect_encoding (lines 267 and 349) or the open of line 269 raises on a file
\* that cannot be read: neither stands in a try block, the exception leaves the
\* function and the traversal with it
ReadFails ==
    /\ pc = "walk"
    /\ idx <= NFiles
    /\ ShouldProcess(Name(idx), processed_files)
    /\ Idle
    /\ lastDone' = FALSE
    /\ exit' = "raised"
    /\ UNCHANGED <<disk, runs, ledgerHist, returned, ckptHist, crashHist,
                   checked, kinds, textVars, moreVars>>

\* the process is interrupted at any point of a run
Crash ==
    /\ pc \in {"walk", "ckpt", "mutate", "mwrite", "report", "rckpt", "rclose"}
    /\ Idle
    /\ lastDone' = FALSE
    /\ orphans' = IF pc = "mutate" THEN orphans \cup {idx} ELSE orphans
    /\ torn' = IF pc = "mwrite" THEN torn \cup {idx} ELSE torn
    /\ UNCHANGED <<disk, runs, ledgerHist, returned, ckptHist>>
    /\ exit' = "interrupted"
    /\ outcome' = <<>>
    /\ UNCHANGED <<checked, kinds, pureVars, moreVars>>

Next ==
    \/ \E k \in {"check", "repair"} : StartRun(k)
    \/ SkipFile
    \/ ProbeFile
    \/ Checkpoint
    \/ MutateOpen
    \/ MutateReadFails
    \/ MutateWrite
    \/ MutateWriteFails
    \/ SaveReport
    \/ RepairOpen
    \/ RepairReadFails
    \/ RepairCheckpoint
    \/ RepairClose
    \/ RepairCheckpointFails
    \/ RepairWriteFails
    \/ FinishRun
    \/ ReadFails
    \/ Crash

Spec == Init /\ [][Next]_vars

\* ------------------------------------------- the ledger operations by themselves
LedgerAlphabet == {"a", "b", NL}
LedgerIds == {<<"a">>, <<"b">>}

SeqsUpTo(S, n) == UNION {[1..k -> S] : k \in 0..n}

\* any prior content of the checkpoint file, absent included
InitLedger ==
    /\ cp \in {AbsentFile} \cup {FileOf(c) : c \in SeqsUpTo(LedgerAlphabet, MaxPrior)}
    /\ start = cp
    /\ files = [i \in 1..NFiles |-> OtherText]
    /\ orig = files
    /\ report = AbsentFile
    /\ errlog = AbsentFile
    /\ pc = "ledger"
    /\ LocalInit
    /\ HistInit
    /\ TextInit
    /\ MoreInit

\* update_checkpoint(checkpoint_file, id)
LedgerRecord(id) ==
    /\ pc \in {"ledger", "loaded"}
    /\ nrec < MaxRecords
    /\ nrec' = nrec + 1
    /\ cp' = UpdateCheckpoint(cp, id)
    /\ returned' = returned \cup {id}
    /\ pc' = "ledger"
    /\ UNCHANGED <<files, report, errlog, kind, idx, processed_files,
                   file_count, failing_urls, buffer, runs, orig, start,
                   runHist, ckptHist, crashHist, afterDone, lastDone>>
    /\ UNCHANGED <<exit, checked, kinds, textVars, moreVars>>

\* read_checkpoint(checkpoint_file)
LedgerLoad ==
    /\ pc = "ledger"
    /\ processed_files' = ReadCheckpoint(cp)
    /\ pc' = "loaded"
    /\ UNCHANGED <<disk, kind, idx, file_count, failing_urls, buffer, runs,
                   ledgerHist, runHist, returned, ckptHist, crashHist,
                   afterDone, lastDone>>
    /\ UNCHANGED <<exit, checked, kinds, textVars, moreVars>>

NextLedger ==
    \/ \E id \in LedgerIds : LedgerRecord(id)
    \/ LedgerLoad

SpecLedger == InitLedger /\ [][NextLedger]_vars

\* ------------------------------- extraction and probing by themselves
MaxUrlText == 5
UrlAlphabet == {"H", "S", "X", "w", ".", "/", " ", ")"}

\* the other variables stand as in a tree where nothing runs
NoRun ==
    /\ files = [i \in 1..NFiles |-> OtherText]
    /\ orig = files
    /\ cp = AbsentFile
    /\ start = cp
    /\ report = AbsentFile
    /\ errlog = AbsentFile
    /\ LocalInit
    /\ HistInit
    /\ MoreInit

\* any text over the alphabet is the argument of extract_urls_from_text
InitUrls ==
    /\ text \in SeqsUpTo(UrlAlphabet, MaxUrlText)
    /\ op = "none"
    /\ result = <<>>
    /\ once = <<>>
    /\ url_list = <<>>
    /\ outcome = <<>>
    /\ probes = <<>>
    /\ pc = "urls"
    /\ NoRun

\* urls = extract_urls_from_text(text): the list of the distinct matches, in
\* any order
UrlsExtract ==
    /\ pc = "urls"
    /\ op = "none"
    /\ \E order \in Orderings(extract_urls_from_text(text)) : url_list' = order
    /\ op' = "extract"
    /\ UNCHANGED <<disk, local, runs, ledgerHist, runHist, returned, ckptHist,
                   crashHist, afterDone, lastDone, exit, checked, kinds, moreVars,
                   probes, text, result, once,
                   outcome>>

\* failing_urls = check_urls(urls), each HEAD probe doing what outcome says
UrlsProbe ==
    /\ pc = "urls"
    /\ op = "extract"
    /\ \E out \in [Range(url_list) -> HeadOutcomes] :
           /\ outcome' = out
           /\ failing_urls' = check_urls(url_list, out)
    /\ probes' = HeadCalls(url_list)
    /\ op' = "probe"
    /\ UNCHANGED <<disk, pc, kind, idx, processed_files, file_count, buffer,
                   runs, ledgerHist, runHist, returned, ckptHist, crashHist,
                   afterDone, lastDone, exit, checked, kinds, moreVars, text,
                   result, once, url_list>>

NextUrls ==
    \/ UrlsExtract
    \/ UrlsProbe

SpecUrls == InitUrls /\ [][NextUrls]_vars

\* --------------------------------------- the text transforms by themselves
MaxSegments == 4

\* the pieces well-formed Markdown is made of here: prose, a bare URL, links
\* to three URLs (one a prefix of another), empty links
Segments ==
    { <<"p">>, <<" ">>, <<"H", "b", " ">>,
      LinkText,
      <<"[", "t", "]", "(", "H", "b", "c", ")">>,
      <<"[", "t", "]", "(", "H", "c", ")">>,
      EmptyLinkText,
      <<"[", "t", "]", "(", " ", ")">> }

RECURSIVE Flatten(_)
Flatten(d) == IF d = <<>> THEN <<>> ELSE Head(d) \o Flatten(Tail(d))

\* texts with nested or adjacent brackets, with a URL inside a URL, with a
\* link inside the text of a link
OddTexts ==
    { <<"[", "[", "t", "]", "(", ")", "]", "(", ")">>,
      <<"[", "t", "]", "[", "(", ")", "]", "(", ")">>,
      <<"[", "t", "]", "(", "[", " ", "]", "(", ")", ")">>,
      <<"H", "b", " ", "H", "H", "b", "b">>,
      <<"H", "b", " ", "H", "[", "b", "]", "(", ")">>,
      <<"[", "p", "[", "t", "]", "(", "H", "b", ")", "p", "]", "(", "H", "c", ")">>,
      <<"[", "[", "t", "]", "(", "b", ")", "]", "(", "c", ")">>,
      <<"[", "t", "]", "(", NL, "[", "t", "]", "(", "b", ")", "]", "(", "c", ")">> }

\* any text made of at most MaxSegments segments, or an odd text, is the
\* content the transform is applied to
InitText ==
    /\ text \in {Flatten(d) : d \in SeqsUpTo(Segments, MaxSegments)} \cup OddTexts
    /\ op = "none"
    /\ result = <<>>
    /\ once = <<>>
    /\ url_list = <<>>
    /\ outcome = <<>>
    /\ probes = <<>>
    /\ pc = "text"
    /\ NoRun

\* the body of remove_failing_links_from_file on the content text, lines
\* 138-143, for a failing list made of URLs extracted from it, in any order
TextRemove ==
    /\ pc = "text"
    /\ op = "none"
    /\ \E F \in SUBSET extract_urls_from_text(text) :
           /\ F # {}
           /\ \E order \in Orderings(F) :
                  /\ failing_urls' =
                         [k \in DOMAIN order |->
                             [url |-> order[k], status_code |-> 404]]
                  /\ result' = RemoveFailingLinks(text, failing_urls')
    /\ op' = "remove"
    /\ UNCHANGED <<disk, pc, kind, idx, processed_files, file_count, buffer,
                   runs, ledgerHist, runHist, returned, ckptHist, crashHist,
                   afterDone, lastDone, exit, checked, kinds, moreVars,
                   probes, text, once, url_list, outcome>>

\* the substitution of repairing_empty_links, lines 352-354, on the content
TextRepair ==
    /\ pc = "text"
    /\ op = "none"
    /\ result' = RepairEmptyLinks(text, 1)
    /\ op' = "repair"
    /\ UNCHANGED <<disk, local, runs, ledgerHist, runHist, returned, ckptHist,
                   crashHist, afterDone, lastDone, exit, checked, kinds, moreVars,
                   probes, text, once, url_list,
                   outcome>>

\* the same substitution on the text the first one returned (a second run)
TextRepairAgain ==
    /\ pc = "text"
    /\ op = "repair"
    /\ once' = result
    /\ result' = RepairEmptyLinks(result, 1)
    /\ op' = "repair2"
    /\ UNCHANGED <<disk, local, runs, ledgerHist, runHist, returned, ckptHist,
                   crashHist, afterDone, lastDone, exit, checked, kinds, moreVars,
                   probes, text, url_list,
                   outcome>>

\* find_nested_links_in_file on a file whose content is text
TextNested ==
    /\ pc = "text"
    /\ op = "none"
    /\ result' = find_nested_links_in_file(text)
    /\ op' = "nested"
    /\ UNCHANGED <<disk, local, runs, ledgerHist, runHist, returned, ckptHist,
                   crashHist, afterDone, lastDone, exit, checked, kinds,
                   moreVars, probes, text, once, url_list, outcome>>

NextText ==
    \/ TextRemove
    \/ TextRepair
    \/ TextRepairAgain
    \/ TextNested

SpecText == InitText /\ [][NextText]_vars

\* ------------------------------------------- the report writers by themselves
MaxCalls == 3

\* arguments of the calls
SomeFailingLists ==
    { <<>>,
      <<[url |-> <<"H", "b">>, status_code |-> 404]>>,
      <<[url |-> <<"H", "b">>, status_code |-> 404],
        [url |-> <<"H", "c">>, status_code |-> None]>> }

SomeFailingLinks ==
    { <<>>,
      << <<1, <<"H", "b">>>> >>,
      << <<1, <<"H", "b">>>>, <<4, <<"H", "c">>>> >> }

SomeNestedData ==
    { <<>>,
      << <<1, <<"t">>, <<"H", "b">>>> >>,
      << <<1, <<"t">>, <<"H", "b">>>>, <<4, <<"p">>, <<"H", "c">>>> >> }

\* no report exists yet; the nested-links output may hold older content
InitReports ==
    /\ UpdInit
    /\ files = [i \in 1..NFiles |-> OtherText]
    /\ orig = files
    /\ cp = AbsentFile
    /\ start = cp
    /\ report = AbsentFile
    /\ errlog = AbsentFile
    /\ pc = "reports"
    /\ LocalInit
    /\ HistInit
    /\ TextInit
    /\ batch_size = 1
    /\ failing_links = <<>>
    /\ batch_csv = AbsentFile
    /\ flushed = <<>>
    /\ pages = <<>>
    /\ page = 1
    /\ all_posts = <<>>
    /\ output_file \in
           {AbsentFile,
            FileOf(<<NestedHeader>> \o NestedRows(<< <<2, <<"p">>, <<"H", "c">>>> >>))}

\* what no writer call changes
ReportsFrame ==
    /\ runs < MaxCalls
    /\ runs' = runs + 1
    /\ UNCHANGED <<files, cp, errlog, local, ledgerHist, runHist, returned,
                   ckptHist, crashHist, afterDone, lastDone, checked, kinds,
                   url_list, outcome, probes, batch_size, failing_links,
                   flushed, apiVars, updVars>>

\* save_failing_urls_to_csv(File, failing_urls_list)
ReportSave ==
    /\ pc = "reports"
    /\ \E i \in MdFiles : \E l \in SomeFailingLists :
           report' = save_failing_urls_to_csv(report, Name(i), l)
    /\ op' = "save_failing_urls_to_csv"
    /\ exit' = "returned"
    /\ ReportsFrame
    /\ UNCHANGED <<text, once, result, batch_csv, output_file>>

\* one flush of find_failing_links_and_update_csv, lines 219-223 and 227-229
ReportFlush ==
    /\ pc = "reports"
    /\ \E l \in SomeFailingLinks : batch_csv' = FlushBatch(batch_csv, l)
    /\ op' = "flush"
    /\ exit' = "returned"
    /\ ReportsFrame
    /\ UNCHANGED <<text, once, result, report, output_file>>

\* write_to_csv(data, output_file): nothing fails, True is returned
ReportWrite ==
    /\ pc = "reports"
    /\ \E data \in SomeNestedData :
           /\ text' = data
           /\ output_file' = write_to_csv(output_file, data)
    /\ once' = output_file.content
    /\ result' = TRUE
    /\ op' = "write_to_csv"
    /\ exit' = "returned"
    /\ ReportsFrame
    /\ UNCHANGED <<report, batch_csv>>

\* write_to_csv: open raises (the file stays as it was) or a write raises
\* after open truncated the file; the except clause returns False
ReportWriteFails ==
    /\ pc = "reports"
    /\ \E data \in SomeNestedData : text' = data
    /\ \E opened \in BOOLEAN :
           output_file' = IF opened THEN FileOf(<<>>) ELSE output_file
    /\ once' = output_file.content
    /\ result' = FALSE
    /\ op' = "write_to_csv"
    /\ exit' = "returned"
    /\ ReportsFrame
    /\ UNCHANGED <<report, batch_csv>>

NextReports ==
    \/ ReportSave
    \/ ReportFlush
    \/ ReportWrite
    \/ ReportWriteFails

SpecReports == InitReports /\ [][NextReports]_vars

\* ------------------------------------------- the category listing by itself
MaxPages == 3

\* what one page of the listing can hold: one or two posts
PageContents == {<<1>>, <<2>>, <<1, 2>>, <<3, 4>>}

\* the category is spread over at most MaxPages non-empty pages
InitPages ==
    /\ UpdInit
    /\ pages \in SeqsUpTo(PageContents, MaxPages)
    /\ page = 1
    /\ all_posts = <<>>
    /\ batch_size = 1
    /\ failing_links = <<>>
    /\ batch_csv = AbsentFile
    /\ flushed = <<>>
    /\ output_file = AbsentFile
    /\ pc = "request"
    /\ files = [i \in 1..NFiles |-> OtherText]
    /\ orig = files
    /\ cp = AbsentFile
    /\ start = cp
    /\ report = AbsentFile
    /\ errlog = AbsentFile
    /\ LocalInit
    /\ HistInit
    /\ TextInit

\* response.json().get("posts", []) for the page asked
PostsOf(p, n) == IF n \in DOMAIN p THEN p[n] ELSE <<>>

\* what no step of get_wordpress_posts_by_category changes
PagesFrame ==
    UNCHANGED <<disk, kind, idx, processed_files, file_count, failing_urls,
                buffer, runs, ledgerHist, runHist, returned, ckptHist,
                crashHist, afterDone, lastDone, checked, kinds, text, result,
                once, url_list, outcome, probes, batchVars, pages,
                output_file, updVars>>

\* lines 490-497: status 200 and posts on the page: they are accumulated, page
\* is incremented, and the break of line 497 leaves the loop
PageReceived ==
    /\ pc = "request"
    /\ PostsOf(pages, page) # <<>>
    /\ all_posts' = all_posts \o PostsOf(pages, page)
    /\ page' = page + 1
    /\ pc' = "returned"
    /\ op' = "page"
    /\ exit' = "returned"
    /\ PagesFrame

\* lines 493-494: status 200 and no posts on the page
PageEmpty ==
    /\ pc = "request"
    /\ PostsOf(pages, page) = <<>>
    /\ pc' = "returned"
    /\ op' = "empty"
    /\ exit' = "returned"
    /\ UNCHANGED <<page, all_posts>>
    /\ PagesFrame

\* lines 498-503: another status, or requests.get raises
PageFails ==
    /\ pc = "request"
    /\ pc' = "returned"
    /\ op' = "failed"
    /\ exit' = "returned"
    /\ UNCHANGED <<page, all_posts>>
    /\ PagesFrame

NextPages ==
    \/ PageReceived
    \/ PageEmpty
    \/ PageFails

SpecPages == InitPages /\ [][NextPages]_vars

\* --------------------------------------------- the batch report by itself
MaxBatchFiles == 3
MaxBatchSize == 2

\* a byte that is not valid UTF-8
BadByte == "0xFF"

\* open(file_path, 'r', encoding='utf-8').read() succeeds on these bytes
Utf8Valid(bytes) == BadByte \notin Range(bytes)

BatchUrls == {<<"H", "b">>, <<"H", "c">>}

\* contents of the Markdown files of the directory
BatchTexts ==
    { <<"p">>, <<"H", "b">>, <<"H", "b", " ", "H", "c">>,
      <<"H", "b", " ", BadByte>> }

\* requests.head of a one-character string: MissingSchema, a
\* RequestException without a response; nothing is sent
MissingSchema == Outcome(TRUE, FALSE, None)

\* line 214: check_urls(url) with url a string iterates over its characters
UrlPasses(url) == check_urls(url, [c \in Range(url) |-> MissingSchema]) = <<>>

\* the loop of lines 213-215 over urls: the [file_path, url] records appended
RECURSIVE NewFailingLinks(_, _)
NewFailingLinks(file_path, urls) ==
    IF urls = <<>> THEN <<>>
    ELSE (IF UrlPasses(Head(urls)) THEN << <<file_path, Head(urls)>> >> ELSE <<>>)
             \o NewFailingLinks(file_path, Tail(urls))

\* a directory of at most MaxBatchFiles Markdown files, a batch size, and what
\* a HEAD probe of each URL would answer
InitBatch ==
    /\ UpdInit
    /\ files \in SeqsUpTo(BatchTexts, MaxBatchFiles)
    /\ orig = files
    /\ batch_size \in 1..MaxBatchSize
    /\ outcome \in [BatchUrls -> {Outcome(FALSE, TRUE, 200),
                                  Outcome(FALSE, TRUE, 404)}]
    /\ failing_links = <<>>
    /\ batch_csv = AbsentFile
    /\ flushed = <<>>
    /\ pages = <<>>
    /\ page = 1
    /\ all_posts = <<>>
    /\ output_file = AbsentFile
    /\ cp = AbsentFile
    /\ start = cp
    /\ report = AbsentFile
    /\ errlog = AbsentFile
    /\ pc = "batch"
    /\ kind = "none"
    /\ idx = 1
    /\ processed_files = {}
    /\ file_count = 0
    /\ failing_urls = <<>>
    /\ buffer = <<>>
    /\ HistInit
    /\ text = <<>>
    /\ op = "none"
    /\ result = <<>>
    /\ once = <<>>
    /\ url_list = <<>>
    /\ probes = <<>>

\* what no step of find_failing_links_and_update_csv changes
BatchFrame ==
    UNCHANGED <<files, cp, report, errlog, kind, processed_files, failing_urls,
                buffer, runs, ledgerHist, runHist, returned, ckptHist,
                crashHist, afterDone, lastDone, checked, kinds, textVars,
                batch_size, apiVars, output_file, updVars>>

\* lines 206-223 for one file: count, read as UTF-8, extract, test every URL,
\* flush when file_count is a multiple of batch_size
BatchFile ==
    /\ pc = "batch"
    /\ idx <= Len(files)
    /\ Utf8Valid(files[idx])
    /\ file_count' = file_count + 1
    /\ \E urls \in Orderings(extract_urls_from_text(files[idx])) :
           LET links == failing_links \o NewFailingLinks(idx, urls)
           IN  IF file_count' % batch_size = 0
               THEN /\ batch_csv' = FlushBatch(batch_csv, links)
                    /\ flushed' = Append(flushed, file_count')
                    /\ failing_links' = <<>>
               ELSE /\ failing_links' = links
                    /\ UNCHANGED <<batch_csv, flushed>>
    /\ idx' = idx + 1
    /\ UNCHANGED <<pc, exit>>
    /\ BatchFrame

\* line 211-212: the bytes are not UTF-8, UnicodeDecodeError leaves the function
BatchDecodeFails ==
    /\ pc = "batch"
    /\ idx <= Len(files)
    /\ ~Utf8Valid(files[idx])
    /\ file_count' = file_count + 1
    /\ pc' = "done"
    /\ exit' = "raised"
    /\ UNCHANGED <<idx, failing_links, batch_csv, flushed>>
    /\ BatchFrame

\* lines 225-232: the walk is over; what is left in failing_links is flushed
BatchFinish ==
    /\ pc = "batch"
    /\ idx > Len(files)
    /\ IF failing_links # <<>>
       THEN /\ batch_csv' = FlushBatch(batch_csv, failing_links)
            /\ flushed' = Append(flushed, file_count)
       ELSE UNCHANGED <<batch_csv, flushed>>
    /\ pc' = "done"
    /\ exit' = "returned"
    /\ UNCHANGED <<idx, file_count, failing_links>>
    /\ BatchFrame

NextBatch ==
    \/ BatchFile
    \/ BatchDecodeFails
    \/ BatchFinish

SpecBatch == InitBatch /\ [][NextBatch]_vars

\* ------------------------------- the repair of one file, bytes to bytes
MaxParts == 3

CR == "\r"

\* what a file is made of here: prose, links, empty links, the three line
\* endings, a byte that is not valid under the detected encoding
FileParts ==
    { <<"p">>, <<" ">>, LinkText, EmptyLinkText,
      <<"[", "t", "]", "(", " ", ")">>,
      <<NL>>, <<CR, NL>>, <<CR>>, <<BadByte>> }

\* errors='ignore': the bytes the codec cannot decode are left out
DropInvalid(bytes) == SelectSeq(bytes, LAMBDA b : b # BadByte)

\* a text-mode read with newline=None: "\r\n" and "\r" arrive as "\n"
RECURSIVE UniversalNewlines(_)
UniversalNewlines(s) ==
    IF s = <<>> THEN <<>>
    ELSE IF Head(s) = CR
         THEN IF Len(s) >= 2 /\ s[2] = NL
              THEN <<NL>> \o UniversalNewlines(Drop(s, 2))
              ELSE <<NL>> \o UniversalNewlines(Tail(s))
         ELSE <<Head(s)>> \o UniversalNewlines(Tail(s))

\* open(file_path, 'r', encoding=encoding, errors='ignore').read()
ReadText(bytes) == UniversalNewlines(DropInvalid(bytes))

\* os.linesep of the platform the program runs on
LineSeps == {<<NL>>, <<CR, NL>>}

\* a text-mode write with newline=None: every "\n" leaves as os.linesep
RECURSIVE WriteText(_, _)
WriteText(s, linesep) ==
    IF s = <<>> THEN <<>>
    ELSE (IF Head(s) = NL THEN linesep ELSE <<Head(s)>>)
             \o WriteText(Tail(s), linesep)

\* the bytes of one file not yet repaired
InitFile ==
    /\ text \in {Flatten(d) : d \in SeqsUpTo(FileParts, MaxParts)}
    /\ op = "none"
    /\ result = <<>>
    /\ once = <<>>
    /\ url_list = <<>>
    /\ outcome = <<>>
    /\ probes = <<>>
    /\ pc = "file"
    /\ NoRun

\* repairing_empty_links, lines 352-357, on a file whose bytes are text: the
\* read, the substitution, the write back and the close
FileRepair ==
    /\ pc = "file"
    /\ op = "none"
    /\ once' = ReadText(text)
    /\ \E linesep \in LineSeps :
           result' = WriteText(RepairEmptyLinks(once', 1), linesep)
    /\ op' = "written"
    /\ UNCHANGED <<disk, local, runs, ledgerHist, runHist, returned, ckptHist,
                   crashHist, afterDone, lastDone, exit, checked, kinds,
                   moreVars, probes, text, url_list, outcome>>

NextFileRepair == FileRepair

SpecFile == InitFile /\ [][NextFileRepair]_vars

\* ------------------------------------- the category listing written to a file
\* the posts of the site by ID; posts 1 and 3 have the same title
PostTitles == <<<<"A">>, <<"B">>, <<"A">>, <<"Z">>>>

\* "B" stands for https://example.org/blog/, "G" for .../glossary/
PostUrls ==
    << <<"B", "x", "/">>, <<"B", "b", "/">>, <<"B", "a", "/">>, <<"B", "c", "/">> >>

\* a post as the API returns it
ApiPost(n) ==
    [ID |-> n, title |-> PostTitles[n], URL |-> PostUrls[n], status |-> "publish"]

\* lines 640-644: the three fields kept of a post
Summary(post) == [ID |-> post.ID, title |-> post.title, URL |-> post.URL]

RECURSIVE AppendPosts_firstOnly(_, _)
AppendPosts_firstOnly(all, posts) ==
    IF posts = <<>> THEN all ELSE Append(all, Summary(ApiPost(Head(posts))))

\* lines 639-644: for post in posts: all_posts.append({...})
RECURSIVE AppendPosts(_, _)
AppendPosts(all, posts) ==
    IF posts = <<>> THEN all
    ELSE AppendPosts(Append(all, Summary(ApiPost(Head(posts)))), Tail(posts))

\* the category holds at most MaxPages pages of posts; the file to write may
\* hold an older listing
InitListing ==
    /\ pages \in SeqsUpTo(PageContents, MaxPages)
    /\ page = 1
    /\ all_posts = <<>>
    /\ json_file \in {AbsentFile, FileOf(<<Summary(ApiPost(4))>>)}
    /\ calls = <<>>
    /\ responses = <<>>
    /\ errors = <<>>
    /\ error_log = AbsentFile
    /\ batch_size = 1
    /\ failing_links = <<>>
    /\ batch_csv = AbsentFile
    /\ flushed = <<>>
    /\ output_file = AbsentFile
    /\ pc = "listing"
    /\ files = [i \in 1..NFiles |-> OtherText]
    /\ orig = files
    /\ cp = AbsentFile
    /\ start = cp
    /\ report = AbsentFile
    /\ errlog = AbsentFile
    /\ LocalInit
    /\ HistInit
    /\ TextInit

ListingFrame ==
    UNCHANGED <<disk, kind, idx, processed_files, file_count, failing_urls,
                buffer, runs, ledgerHist, runHist, returned, ckptHist,
                crashHist, afterDone, lastDone, checked, kinds, text, result,
                once, url_list, outcome, probes, batchVars, pages,
                output_file, calls, responses, errors, error_log>>

\* lines 636-647: status 200 and posts on the page: they are accumulated, page
\* is incremented and the loop goes on
ListingPage ==
    /\ pc = "listing"
    /\ PostsOf(pages, page) # <<>>
    /\ all_posts' = AppendPosts(all_posts, PostsOf(pages, page))
    /\ page' = page + 1
    /\ op' = "page"
    /\ UNCHANGED <<pc, exit, json_file>>
    /\ ListingFrame

\* lines 637-638 and 652-654: status 200 and no posts: the loop ends, the
\* file is written
ListingEmpty ==
    /\ pc = "listing"
    /\ PostsOf(pages, page) = <<>>
    /\ json_file' = FileOf(all_posts)
    /\ pc' = "written"
    /\ op' = "empty"
    /\ exit' = "returned"
    /\ UNCHANGED <<page, all_posts>>
    /\ ListingFrame

\* lines 648-650 and 652-654: another status: the loop ends, the file is
\* written
ListingFails ==
    /\ pc = "listing"
    /\ json_file' = FileOf(all_posts)
    /\ pc' = "written"
    /\ op' = "failed"
    /\ exit' = "returned"
    /\ UNCHANGED <<page, all_posts>>
    /\ ListingFrame

\* line 635: requests.get raises; nothing catches it, nothing is written
ListingRaises ==
    /\ pc = "listing"
    /\ pc' = "done"
    /\ op' = "raised"
    /\ exit' = "raised"
    /\ UNCHANGED <<page, all_posts, json_file>>
    /\ ListingFrame

NextListing ==
    \/ ListingPage
    \/ ListingEmpty
    \/ ListingFails
    \/ ListingRaises

SpecListing == InitListing /\ [][NextListing]_vars

\* every request is answered or raises: the loop never stands still
SpecListingLive == SpecListing /\ WF_vars(NextListing)

\* ------------------------------------------ the update of posts from a file
MaxUpdateRuns == 2
MaxPosts == 2

\* the Markdown folder: name, the title of the front matter (<<>>: none),
\* whether the front matter has a post_excerpt, the first line of the body
UpdateFolder ==
    << [name |-> <<"a", ".", "m", "d">>, front |-> <<"A", " ">>,
        excerpt |-> TRUE, heading |-> <<"#", " ", "H">>],
       [name |-> <<"b", ".", "m", "d">>, front |-> <<>>,
        excerpt |-> FALSE, heading |-> <<"#", " ", "Q">>],
       [name |-> <<"c", ".", "m", "d">>, front |-> <<>>,
        excerpt |-> TRUE, heading |-> <<"#", "Z", " ">>],
       [name |-> <<"n", ".", "t", "x", "t">>, front |-> <<"A">>,
        excerpt |-> TRUE, heading |-> <<"#", " ", "A">>] >>

\* str.strip() on the characters used here
RECURSIVE LStrip(_)
LStrip(s) == IF s # <<>> /\ Head(s) = " " THEN LStrip(Tail(s)) ELSE s

RECURSIVE RStrip(_)
RStrip(s) ==
    IF s # <<>> /\ s[Len(s)] = " " THEN RStrip(SubSeq(s, 1, Len(s) - 1)) ELSE s

Strip(s) == RStrip(LStrip(s))

\* clean_title: '#' removed, then strip; the other replacements act on
\* characters no title has here
clean_title(t) == Strip(SelectSeq(t, LAMBDA c : c # "#"))

\* get_title: the heading line of the body, cleaned
get_title(f) == clean_title(f.heading)

\* lines 713-717: the title of the front matter, stripped, else get_title
FileTitle(f) == IF f.front # <<>> THEN Strip(f.front) ELSE get_title(f)

\* str.replace(old, new) from position i on
RECURSIVE ReplaceAll(_, _, _, _)
ReplaceAll(s, i, old, new) ==
    IF i > Len(s) THEN <<>>
    ELSE IF StartsWithAt(s, i, old)
         THEN new \o ReplaceAll(s, i + Len(old), old, new)
         ELSE <<s[i]>> \o ReplaceAll(s, i + 1, old, new)

\* lines 706-710: the URL derived from the file name
DerivedUrl(categories, filename) ==
    ReplaceAll((IF categories = "Glossary" THEN <<"G">> ELSE <<"B">>) \o filename,
               1, MdExt, <<"/">>)

\* {post[key]: post['ID'] for post in post_data}: a later post replaces an
\* earlier one with the same key
RECURSIVE DictOf(_, _)
DictOf(post_data, key) ==
    IF post_data = <<>> THEN <<>>
    ELSE LET rest == DictOf(SubSeq(post_data, 1, Len(post_data) - 1), key)
             last == post_data[Len(post_data)]
         IN  [k \in DOMAIN rest \cup {last[key]} |->
                 IF k = last[key] THEN last.ID ELSE rest[k]]

MatchPost_titleOnly(title, url, post_data) ==
    LET title_to_id == DictOf(post_data, "title")
    IN  IF title \in DOMAIN title_to_id THEN title_to_id[title] ELSE 0

\* lines 718-735: the post ID by title, else by URL; 0 when none matches
MatchPost(title, url, post_data) ==
    LET title_to_id == DictOf(post_data, "title")
        url_to_id == DictOf(post_data, "URL")
    IN  IF title \in DOMAIN title_to_id THEN title_to_id[title]
        ELSE IF url \in DOMAIN url_to_id THEN url_to_id[url]
        ELSE 0

\* open("error_log.txt", "a") and one line
LogLine(log, file, what) == FileOf(log.content \o << <<file, what>> >>)

\* update_wordpress_post, lines 207-225: what it appends to error_log.txt
UpdateLog(log, f) ==
    LET l1 == IF f.excerpt THEN log ELSE LogLine(log, f.name, "excerpt not found")
    IN  IF f.front # <<>> THEN l1 ELSE LogLine(l1, f.name, "title not found")

\* lines 741-744: errors written over error_log.txt when there are any
WriteErrors(log, errs) ==
    IF errs # <<>>
    THEN FileOf([k \in DOMAIN errs |-> <<errs[k], "No matching post found">>])
    ELSE log

\* the JSON file holds at most MaxPosts posts of the site, or is missing
InitUpdate ==
    /\ json_file \in
           {AbsentFile} \cup
           {FileOf([k \in DOMAIN ids |-> Summary(ApiPost(ids[k]))]) :
                ids \in SeqsUpTo(DOMAIN PostTitles, MaxPosts)}
    /\ calls = <<>>
    /\ responses = <<>>
    /\ errors = <<>>
    /\ error_log = AbsentFile
    /\ pages = <<>>
    /\ page = 1
    /\ all_posts = <<>>
    /\ batch_size = 1
    /\ failing_links = <<>>
    /\ batch_csv = AbsentFile
    /\ flushed = <<>>
    /\ output_file = AbsentFile
    /\ pc = "update idle"
    /\ files = [i \in 1..NFiles |-> OtherText]
    /\ orig = files
    /\ cp = AbsentFile
    /\ start = cp
    /\ report = AbsentFile
    /\ errlog = AbsentFile
    /\ LocalInit
    /\ HistInit
    /\ TextInit

UpdateFrame ==
    UNCHANGED <<files, report, errlog, file_count, failing_urls, buffer,
                ledgerHist, runHist, ckptHist, crashHist, afterDone, lastDone,
                checked, kinds, textVars, batchVars, apiVars, output_file,
                json_file, responses>>

\* lines 691-703: read_checkpoint, the JSON file is loaded
UpdateStart ==
    /\ pc = "update idle"
    /\ runs < MaxUpdateRuns
    /\ json_file.exists
    /\ runs' = runs + 1
    /\ \E categories \in {"Blog", "Glossary"} : kind' = categories
    /\ processed_files' = ReadCheckpoint(cp)
    /\ errors' = <<>>
    /\ idx' = 1
    /\ pc' = "update"
    /\ exit' = "none"
    /\ UNCHANGED <<cp, calls, error_log, returned>>
    /\ UpdateFrame

\* line 697: the JSON file cannot be opened, the exception leaves the function
UpdateLoadFails ==
    /\ pc = "update idle"
    /\ runs < MaxUpdateRuns
    /\ ~json_file.exists
    /\ runs' = runs + 1
    /\ processed_files' = ReadCheckpoint(cp)
    /\ exit' = "raised"
    /\ UNCHANGED <<cp, calls, error_log, returned, errors, idx, pc, kind>>
    /\ UpdateFrame

\* one pass of the loop of lines 705-744 over a file name
UpdateFile ==
    /\ pc = "update"
    /\ idx <= Len(UpdateFolder)
    /\ LET f == UpdateFolder[idx]
           post_id == MatchPost(FileTitle(f), DerivedUrl(kind, f.name),
                                json_file.content)
       IN  IF ~ShouldProcess(f.name, processed_files)
           THEN /\ error_log' = WriteErrors(error_log, errors)
                /\ UNCHANGED <<cp, calls, errors, returned>>
           ELSE IF post_id # 0
           THEN /\ \E response \in {"ok", "error"} :
                       calls' = Append(calls, [file |-> f.name, post_id |-> post_id,
                                               response |-> response])
                /\ cp' = UpdateCheckpoint(cp, f.name)
                /\ returned' = returned \cup {f.name}
                /\ error_log' = WriteErrors(UpdateLog(error_log, f), errors)
                /\ UNCHANGED errors
           ELSE /\ errors' = Append(errors, f.name)
                /\ error_log' = WriteErrors(error_log, errors')
                /\ UNCHANGED <<cp, calls, returned>>
    /\ idx' = idx + 1
    /\ UNCHANGED <<pc, kind, processed_files, runs, exit>>
    /\ UpdateFrame

\* line 746: the folder is exhausted, the function returns
UpdateFinish ==
    /\ pc = "update"
    /\ idx > Len(UpdateFolder)
    /\ pc' = "update idle"
    /\ exit' = "returned"
    /\ UNCHANGED <<cp, calls, error_log, returned, errors, idx, kind,
                   processed_files, runs>>
    /\ UpdateFrame

NextUpdate ==
    \/ UpdateStart
    \/ UpdateLoadFails
    \/ UpdateFile
    \/ UpdateFinish

SpecUpdate == InitUpdate /\ [][NextUpdate]_vars

\* --------------------------------------- the update of posts from a folder
\* Python's == between a str and a dict: never equal
StrEqDict(s, d) == FALSE

\* post_title in existing_posts, existing_posts being a list of post dicts
TitleInPosts(post_title, existing_posts) ==
    \E k \in DOMAIN existing_posts : StrEqDict(post_title, existing_posts[k])

\* what get_wordpress_posts_by_category returns: the posts of the first page
\* when the request answers 200, nothing otherwise
get_wordpress_posts_by_category(site, ok) ==
    IF ok THEN [k \in DOMAIN PostsOf(site, 1) |-> ApiPost(PostsOf(site, 1)[k])]
    ELSE <<>>

InitFolder ==
    /\ pages \in SeqsUpTo(PageContents, MaxPages)
    /\ page = 1
    /\ all_posts = <<>>
    /\ UpdInit
    /\ batch_size = 1
    /\ failing_links = <<>>
    /\ batch_csv = AbsentFile
    /\ flushed = <<>>
    /\ output_file = AbsentFile
    /\ pc = "folder idle"
    /\ files = [i \in 1..NFiles |-> OtherText]
    /\ orig = files
    /\ cp = AbsentFile
    /\ start = cp
    /\ report = AbsentFile
    /\ errlog = AbsentFile
    /\ LocalInit
    /\ HistInit
    /\ TextInit

FolderFrame ==
    UNCHANGED <<disk, kind, processed_files, file_count, failing_urls, buffer,
                runs, ledgerHist, runHist, returned, ckptHist, crashHist,
                afterDone, lastDone, checked, kinds, textVars, batchVars,
                pages, page, output_file, json_file, errors, error_log>>

\* lines 595-596: existing_posts is what the category listing returns
FolderStart ==
    /\ pc = "folder idle"
    /\ \E ok \in BOOLEAN : all_posts' = get_wordpress_posts_by_category(pages, ok)
    /\ idx' = 1
    /\ pc' = "folder"
    /\ UNCHANGED <<calls, responses, exit>>
    /\ FolderFrame

\* one pass of the loop of lines 598-610 over a file name: a match would call
\* update_wordpress_post with existing_posts[post_title], which on a list
\* raises TypeError
FolderFile ==
    /\ pc = "folder"
    /\ idx <= Len(UpdateFolder)
    /\ LET f == UpdateFolder[idx]
       IN  IF EndsWith(f.name, MdExt) /\ TitleInPosts(get_title(f), all_posts)
           THEN /\ pc' = "folder done"
                /\ exit' = "raised"
                /\ UNCHANGED idx
           ELSE /\ idx' = idx + 1
                /\ UNCHANGED <<pc, exit>>
    /\ UNCHANGED <<all_posts, calls, responses>>
    /\ FolderFrame

\* line 612: return responses
FolderFinish ==
    /\ pc = "folder"
    /\ idx > Len(UpdateFolder)
    /\ pc' = "folder done"
    /\ exit' = "returned"
    /\ UNCHANGED <<idx, all_posts, calls, responses>>
    /\ FolderFrame

NextFolder ==
    \/ FolderStart
    \/ FolderFile
    \/ FolderFinish

SpecFolder == InitFolder /\ [][NextFolder]_vars

\* ================================================================ properties
\* files the traversal has gone past, the file in flight included
VisitedAt(p, i) == IF p = "walk" THEN 1..(i - 1) ELSE 1..i

CheckpointLines == SplitLines(cp.content)

\* C1 (Spec): a check_and_remove_links run that starts right after a completed
\* check_and_remove_links run processes zero files: none of its steps reads a
\* file, probes a URL, or changes a Markdown file, the checkpoint, the report
\* or the error log, and file_count stays 0.
C1_IdempotentSkip ==
    [][(afterDone /\ pc # "idle") =>
          /\ UNCHANGED <<files, cp, report, errlog>>
          /\ file_count' = 0
          /\ touched' = {}
          /\ probed' = {}]_vars

\* the second run has walked the whole tree after a first run that removed links
C1_Witness ==
    /\ afterDone
    /\ pc = "walk"
    /\ idx > NFiles
    /\ files # orig
    /\ report.exists

C3_CheckpointOnlyOnCompletion ==
    \A i \in needs :
        Name(i) \in ReadCheckpoint(cp) => (i \in mutated /\ i \in reported)

\* C4 (Spec): every identifier whose update_checkpoint call has returned is in
\* what read_checkpoint returns, now and in the set every later run loads,
\* whatever interruptions happened; only a file interrupted before its append
\* has no entry.
C4_CrashDurability ==
    /\ returned \subseteq ReadCheckpoint(cp)
    /\ \A i \in needs \cup mutated \cup reported : Name(i) \in ReadCheckpoint(cp)
    /\ pc # "idle" =>
          (returned \ {Name(i) : i \in touched}) \subseteq processed_files

\* a run after an interrupted one has loaded the two names recorded before
C4_Witness ==
    /\ orphans \cup torn # {}
    /\ pc = "walk"
    /\ Cardinality(processed_files) = 2
    /\ returned = processed_files

WellFormedLedger(f) ==
    \/ ~f.exists
    \/ f.content = <<>>
    \/ f.content[Len(f.content)] = NL

C6_AppendOnly ==
    [][cp' # cp =>
          /\ cp'.exists
          /\ \E i \in MdFiles : cp'.content = cp.content \o Name(i) \o <<NL>>
          /\ ReadCheckpoint(cp) \subseteq ReadCheckpoint(cp')]_vars

\* the second run has appended to the entries the first run left
C6_Witness ==
    /\ runs = 2
    /\ processed_files # {}
    /\ Len(CheckpointLines) >= 2
    /\ ReadCheckpoint(cp) # processed_files

RECURSIVE StripTrailingNewlines(_)
StripTrailingNewlines(s) ==
    IF s # <<>> /\ s[Len(s)] = NL
    THEN StripTrailingNewlines(SubSeq(s, 1, Len(s) - 1))
    ELSE s

\* C7 (SpecLedger), as claimed: read_checkpoint returns the empty set for an
\* absent file, and for a file whose entries are followed by newlines only it
\* returns exactly the set of its entries, with no empty identifier.
C7_LoadNoSpuriousEmpty ==
    pc = "loaded" =>
        /\ ~cp.exists => processed_files = {}
        /\ LET body == StripTrailingNewlines(cp.content)
           IN  (cp.exists /\ body # <<>> /\ <<>> \notin Range(SplitLines(body))) =>
                   processed_files = Range(SplitLines(body))

\* C8 (SpecLedger): starting from an absent file, read_checkpoint returns
\* exactly the set of identifiers recorded so far, in any order and with any
\* repetition of the calls.
C8_ExactSet ==
    ~start.exists =>
        /\ ReadCheckpoint(cp) = returned
        /\ pc = "loaded" => processed_files = returned

\* three records of two identifiers, one repeated, then a load
C8_Witness ==
    /\ ~start.exists
    /\ nrec >= 3
    /\ Cardinality(returned) = 2
    /\ pc = "loaded"

\* C9 (Spec): processed_files is what read_checkpoint returns when the run
\* starts and does not change during the run; the files the run has read are
\* exactly the visited Markdown files whose bare name is not in that set; a
\* file whose bare name is in the set is never modified, and no name of the
\* set is appended to the checkpoint.
C9_SkipRule ==
    [][/\ (pc = "idle" /\ pc' # "idle") => processed_files' = ReadCheckpoint(cp)
       /\ (pc # "idle" /\ pc' # "idle") => processed_files' = processed_files
       /\ pc' # "idle" =>
             touched' = {i \in VisitedAt(pc', idx') :
                            /\ EndsWith(Name(i), MdExt)
                            /\ Name(i) \notin processed_files'}
       /\ pc # "idle" =>
             \A i \in 1..NFiles :
                 Name(i) \in processed_files => files'[i] = files[i]
       /\ (pc # "idle" /\ cp' # cp) => Name(idx) \notin processed_files]_vars

\* a run that skipped both files named a.md and processed b.md
C9_Witness ==
    /\ pc = "walk"
    /\ idx > NFiles
    /\ processed_files # {}
    /\ touched = {4}

\* C10 (Spec), as claimed: no identifier is on more than one line of the
\* checkpoint file.
C10_NoDuplicateLines ==
    \A i, j \in DOMAIN CheckpointLines :
        CheckpointLines[i] = CheckpointLines[j] => i = j

\* C15: liveness classification in check_urls. A URL whose HEAD probe returns
\* status 200 is not in the returned failing list; a URL whose probe returns
\* any other status s is in the list with status_code s; a URL whose probe
\* raises a transport error is in the list with status_code None when the
\* exception carries no response, and with the response's status code when it
\* carries one.
C15_Classification ==
    op = "probe" =>
        \A k \in DOMAIN url_list :
            LET u == url_list[k]
                o == outcome[u]
                entries == {e \in Range(failing_urls) : e.url = u}
            IN  /\ (~o.raised /\ o.status = 200) => entries = {}
                /\ (~o.raised /\ o.status # 200) =>
                       entries = {[url |-> u, status_code |-> o.status]}
                /\ (o.raised /\ ~o.has_response) =>
                       entries = {[url |-> u, status_code |-> None]}
                /\ (o.raised /\ o.has_response) =>
                       entries = {[url |-> u, status_code |-> o.status]}

\* two URLs probed: one answers 200, the other raises with a response
C15_Witness ==
    /\ op = "probe"
    /\ Len(url_list) = 2
    /\ Len(failing_urls) = 1
    /\ \E u \in Range(url_list) : ~outcome[u].raised /\ outcome[u].status = 200
    /\ \E u \in Range(url_list) : outcome[u].raised /\ outcome[u].has_response

\* the http(s) URLs occurring in a text, whatever their host
RECURSIVE UrlsOccurring(_, _)
UrlsOccurring(t, i) ==
    IF i >= Len(t) THEN {}
    ELSE IF t[i] \in {"H", "S"} /\ t[i + 1] \notin {" ", NL, ",", ";", ")"}
         THEN LET e == RunEnd(t, i + 1)
              IN  {SubSeq(t, i, e)} \cup UrlsOccurring(t, e + 1)
         ELSE UrlsOccurring(t, i + 1)

\* the host of a URL: what follows the scheme, up to the first "/"
HostOf(u) ==
    LET k == FirstAt(u, 2, "/")
    IN  IF k = 0 THEN Tail(u) ELSE SubSeq(u, 2, k - 1)

\* the host is a deny-listed host or a subdomain of one
HostDenied(h) ==
    /\ h # <<>>
    /\ h[Len(h)] \in {"X", "Y"}
    /\ Len(h) > 1 => h[Len(h) - 1] = "."

\* C16: URL extraction exclusion. extract_urls_from_text returns an http(s)
\* URL occurring in the text if and only if its host does not belong to the
\* denylist (the host is neither a deny-listed host nor a subdomain of one): a
\* URL on a subdomain of a deny-listed host is excluded, a URL on a host that
\* merely begins with a deny-listed string is returned.
C16_ExclusionByHost ==
    op = "extract" =>
        Range(url_list) =
            {u \in UrlsOccurring(text, 1) : ~HostDenied(HostOf(u))}

\* C17: URL extraction shape. Every element returned by
\* extract_urls_from_text begins with http:// or https://, contains no
\* whitespace, comma, semicolon or closing parenthesis, ends at the first such
\* character following its scheme in the text (or at the end of the text),
\* and the returned list has no duplicates.
C17_UrlShape ==
    op = "extract" =>
        /\ \A k \in DOMAIN url_list :
               LET u == url_list[k]
               IN  /\ Len(u) >= 2
                   /\ u[1] \in {"H", "S"}
                   /\ \A j \in DOMAIN u : u[j] \notin {" ", NL, ",", ";", ")"}
                   /\ \E i \in DOMAIN text :
                          /\ StartsWithAt(text, i, u)
                          /\ \/ i + Len(u) > Len(text)
                             \/ text[i + Len(u)] \in {" ", NL, ",", ";", ")"}
        /\ \A k, l \in DOMAIN url_list : url_list[k] = url_list[l] => k = l

\* a URL that occurs twice, once closed by ")" and once by the end of the
\* text, is returned once
C17_Witness ==
    /\ op = "extract"
    /\ text = <<"H", "w", ")", "H", "w">>
    /\ url_list = <<<<"H", "w">>>>

Brackets == {"[", "]", "(", ")"}

\* a complete link [text](target) starts at i, its text and its target free
\* of brackets and parentheses: <<index of "]", index of ")">>, else <<0, 0>>
LinkAt(t, i) ==
    IF t[i] # "[" THEN <<0, 0>>
    ELSE LET k == FirstAt(t, i + 1, "]")
         IN  IF k < i + 2 \/ k + 1 > Len(t) \/ t[k + 1] # "("
             THEN <<0, 0>>
             ELSE LET m == FirstAt(t, k + 2, ")")
                  IN  IF /\ m > 0
                         /\ \A j \in (i + 1)..(k - 1) : t[j] \notin Brackets
                         /\ \A j \in (k + 2)..(m - 1) : t[j] \notin Brackets
                      THEN <<k, m>>
                      ELSE <<0, 0>>

\* from i on, brackets and parentheses occur in t only as the delimiters of
\* complete links
RECURSIVE WellBracketed(_, _)
WellBracketed(t, i) ==
    IF i > Len(t) THEN TRUE
    ELSE IF t[i] \notin Brackets THEN WellBracketed(t, i + 1)
    ELSE LET km == LinkAt(t, i)
         IN  km[1] # 0 /\ WellBracketed(t, km[2] + 1)

NoEmptyLink(t) == \A i \in DOMAIN t : EmptyLinkAt(t, i)[1] = 0

\* t from i on, every link whose target is in F rewritten to its bare text
RECURSIVE CollapseLinks(_, _, _)
CollapseLinks(t, i, F) ==
    IF i > Len(t) THEN <<>>
    ELSE LET km == LinkAt(t, i)
         IN  IF km[1] # 0 /\ SubSeq(t, km[1] + 2, km[2] - 1) \in F
             THEN SubSeq(t, i + 1, km[1] - 1) \o CollapseLinks(t, km[2] + 1, F)
             ELSE <<t[i]>> \o CollapseLinks(t, i + 1, F)

FailingSet == {failing_urls[k].url : k \in DOMAIN failing_urls}

\* C11: dead-link removal collapses links and preserves link text. For any
\* text made of prose and Markdown links [text](url) and any failing URLs
\* extracted from it, in any order, remove_failing_links_from_file rewrites
\* every link whose target is a failing URL to its bare text and leaves every
\* other link and all other text unchanged, also when a failing URL is a
\* prefix of another URL of the text.
C11_CollapseAnyFailing ==
    (op = "remove" /\ WellBracketed(text, 1) /\ NoEmptyLink(text)) =>
        result = CollapseLinks(text, 1, FailingSet)

\* a URL of the text carries no scheme and no bracket after its own scheme
PlainUrls ==
    \A u \in UrlsOccurring(text, 1) :
        \A j \in 2..Len(u) : u[j] \notin {"H", "S", "[", "]", "("}

C13_IdempotentAnyText == op = "repair2" => result = once

\* C13: empty-link repair is idempotent. For every text in which brackets and
\* parentheses occur only as the delimiters of complete links [text](target),
\* applying the substitution twice yields the same text as applying it once.
C13_Idempotent ==
    (op = "repair2" /\ WellBracketed(text, 1)) => result = once

\* the first application changed the text, the second one had nothing to do
C13_Witness ==
    /\ op = "repair2"
    /\ WellBracketed(text, 1)
    /\ once # text
    /\ result = once

\* C14 as stated: after one application of the repair to any text, the result
\* contains no empty link [text]() (non-empty text without "]", optional
\* whitespace inside the parentheses).
C14_CompleteAnyText == op = "repair" => NoEmptyLink(result)

\* C14: empty-link repair is complete. After one application of the repair to
\* a text in which brackets and parentheses occur only as the delimiters of
\* complete links [text](target), the result contains no empty link.
C14_Complete ==
    (op = "repair" /\ WellBracketed(text, 1)) => NoEmptyLink(result)

\* two empty links, one with whitespace inside the parentheses, both repaired
C14_Witness ==
    /\ op = "repair"
    /\ WellBracketed(text, 1)
    /\ IsSubstring(EmptyLinkText, text)
    /\ IsSubstring(<<"(", " ", ")">>, text)
    /\ NoEmptyLink(result)

\* C18: mutation failure isolation. When the read, the transform or the write
\* fails inside remove_failing_links_from_file, the exception does not leave
\* it: exactly one line naming the file and the error message is appended to
\* the error log (created with its header when absent), control returns to
\* check_and_remove_links, and after the report of the file the traversal
\* goes on with the next file.
C18_FailureIsolation ==
    [][/\ (pc \in {"mutate", "mwrite"} /\ errlog' # errlog) =>
              /\ errlog'.exists
              /\ errlog'.content =
                     (IF errlog.exists THEN errlog.content ELSE <<LogHeader>>)
                         \o <<[kind |-> "error", file |-> idx,
                               msg |-> ErrorMessage]>>
              /\ pc' = "report"
              /\ kind' = "check"
              /\ idx' = idx
       /\ (pc = "report" /\ exit' # "interrupted") =>
              /\ pc' = "walk"
              /\ kind' = "check"
              /\ idx' = idx + 1]_vars

\* the mutation of the first file failed and was logged; the same run, the
\* first one, went on and read the last file of the tree
C18_Witness ==
    /\ runs = 1
    /\ kind = "check"
    /\ NFiles \in touched
    /\ errlog.exists
    /\ \E k \in DOMAIN errlog.content :
           errlog.content[k].kind = "error" /\ errlog.content[k].file = 1

\* C19: mutation all-or-nothing on error. Whenever
\* remove_failing_links_from_file ends by logging an error, the content of
\* the target file is either its original content or the fully mutated
\* content: no failure of the read, the transform or the write leaves it
\* empty or partially written.
C19_AllOrNothing ==
    (kind = "check" /\ pc = "report" /\ idx \notin mutated) =>
        files[idx] \in {orig[idx], RemoveFailingLinks(orig[idx], failing_urls)}

\* C20: a per-file failure never aborts a run. In check_and_remove_links and
\* repairing_empty_links a failure confined to one Markdown file does not end
\* the traversal: unless the process is interrupted, a run ends only once
\* every file of the tree has been walked.
C20_FailureNeverAborts ==
    [][(pc # "idle" /\ pc' = "idle" /\ exit' # "interrupted") =>
           idx > NFiles]_vars

\* C29: every file is eventually handled. After any sequence of
\* check_and_remove_links runs over an unchanged tree, some of them
\* interrupted, that ends with a run that completes, every Markdown file of
\* the tree has had its URLs liveness-checked in some run, files that share a
\* bare name with a file of another directory included.
C29_EveryFileChecked ==
    (pc = "idle" /\ lastDone /\ kinds = {"check"}) => MdFiles \subseteq checked

\* C30: no retries and sequential probing. check_urls issues exactly one HEAD
\* probe per element of its input, in input order; the failing list it
\* returns is a subsequence of the input order with at most one record per
\* input element, and a URL whose single probe raised is in it.
C30_SequentialProbing ==
    op = "probe" =>
        /\ Len(probes) = Len(url_list)
        /\ \A k \in DOMAIN probes : probes[k] = url_list[k]
        /\ \E f \in [DOMAIN failing_urls -> DOMAIN url_list] :
               /\ \A i, j \in DOMAIN f : i < j => f[i] < f[j]
               /\ \A j \in DOMAIN f : failing_urls[j].url = url_list[f[j]]
        /\ \A u \in Range(url_list) :
               outcome[u].raised =>
                   \E j \in DOMAIN failing_urls : failing_urls[j].url = u

\* two URLs probed, the probe of the first raised, the second answered 404:
\* two records, in the order of the input
C30_Witness ==
    /\ op = "probe"
    /\ Len(url_list) = 2
    /\ Len(failing_urls) = 2
    /\ outcome[url_list[1]].raised
    /\ ~outcome[url_list[2]].raised

HeaderOnce(f, h) ==
    f.exists =>
        /\ f.content # <<>>
        /\ f.content[1] = h
        /\ \A k \in 2..Len(f.content) : f.content[k] # h

\* the lines of old are the first lines of new
KeepsLines(old, new) ==
    /\ Len(new.content) >= Len(old.content)
    /\ SubSeq(new.content, 1, Len(old.content)) = old.content

\* C24: the report header is written once. Starting from an absent report
\* file, after any sequence of save_failing_urls_to_csv calls, and likewise
\* of batch flushes of find_failing_links_and_update_csv, the first line of
\* the report is the header, the header occurs exactly once, and every
\* earlier row is still there, before the rows a later call added.
C24_HeaderOnce ==
    [][/\ HeaderOnce(report', ReportHeader)
       /\ HeaderOnce(batch_csv', BatchHeader)
       /\ KeepsLines(report, report')
       /\ KeepsLines(batch_csv, batch_csv')]_vars

\* both reports hold the header and the rows of more than one call
C24_Witness ==
    /\ runs = 3
    /\ Len(report.content) = 4
    /\ Len(batch_csv.content) = 3

\* C26: the nested-links report. write_to_csv replaces any previous content
\* of the output file with the header row followed by exactly the given rows
\* and returns True; when opening or writing fails it returns False, and it
\* never raises.
C26_WriteToCsv ==
    op = "write_to_csv" =>
        /\ exit = "returned"
        /\ result \in BOOLEAN
        /\ result =>
               /\ output_file.exists
               /\ Len(output_file.content) = 1 + Len(text)
               /\ output_file.content[1] = NestedHeader
               /\ \A k \in DOMAIN text :
                      output_file.content[k + 1] =
                          [kind |-> "row", file |-> text[k][1],
                           text |-> text[k][2], url |-> text[k][3]]

\* a successful call on an output file that held two rows, with one row
C26_Witness ==
    /\ op = "write_to_csv"
    /\ result
    /\ Len(once) = 3
    /\ Len(text) = 1

\* the index of the "]" that closes the "[" opened before i, depth brackets
\* being open at i; 0 if none
RECURSIVE ClosingAt(_, _, _)
ClosingAt(t, i, depth) ==
    IF i > Len(t) THEN 0
    ELSE IF t[i] = "[" THEN ClosingAt(t, i + 1, depth + 1)
    ELSE IF t[i] = "]"
         THEN (IF depth = 1 THEN i ELSE ClosingAt(t, i + 1, depth - 1))
    ELSE ClosingAt(t, i + 1, depth)

\* a Markdown link [text](url) starts at a: <<index of its "]", of its ")">>
WholeLinkAt(t, a) ==
    IF t[a] # "[" THEN <<0, 0>>
    ELSE LET e == ClosingAt(t, a + 1, 1)
         IN  IF e = 0 \/ e + 1 > Len(t) \/ t[e + 1] # "(" THEN <<0, 0>>
             ELSE LET f == FirstAt(t, e + 2, ")")
                  IN  IF f = 0 THEN <<0, 0>> ELSE <<e, f>>

\* the links of t whose text holds a complete link, as (text, url)
NestedLinksOf(t) ==
    {<<SubSeq(t, a + 1, WholeLinkAt(t, a)[1] - 1),
       SubSeq(t, WholeLinkAt(t, a)[1] + 2, WholeLinkAt(t, a)[2] - 1)>> :
        a \in {x \in DOMAIN t :
                 /\ WholeLinkAt(t, x)[1] # 0
                 /\ \E b \in (x + 1)..(WholeLinkAt(t, x)[1] - 1) :
                        /\ WholeLinkAt(t, b)[1] # 0
                        /\ WholeLinkAt(t, b)[2] < WholeLinkAt(t, x)[1]}}

\* C27: nested-link detection. find_nested_links_in_file returns (text, url)
\* for every Markdown link of the file whose link text itself contains a
\* complete Markdown link [inner](target), as for "[a [b](u1) c](u2)", and
\* returns nothing for links without a nested link.
C27_NestedLinksFound ==
    op = "nested" => Range(result) = NestedLinksOf(text)

\* C28: pagination completeness. get_wordpress_posts_by_category returns all
\* posts of the category across all pages: unless a request fails, for a
\* category spread over k non-empty pages the result holds the posts of all
\* k pages, in page order.
C28_AllPages ==
    (pc = "returned" /\ op # "failed") => all_posts = Flatten(pages)

\* C21: decode errors are never fatal. In every operation that reads a
\* Markdown file, find_failing_links_and_update_csv among them, a file whose
\* bytes are not valid under the encoding used to open it is still decoded
\* best-effort and processed, and the run does not stop because of it: a run
\* ends by returning, after every file of the directory has been processed.
C21_DecodeNeverFatal ==
    pc = "done" => (exit = "returned" /\ idx > Len(files))

\* file_count at the flushes the claim describes for n files and batch size b
RECURSIVE Cadence(_, _, _)
Cadence(n, b, k) ==
    IF k * b > n THEN (IF n % b # 0 THEN <<n>> ELSE <<>>)
    ELSE <<k * b>> \o Cadence(n, b, k + 1)

\* C22: batch report flush cadence. For n Markdown files and batch size b,
\* find_failing_links_and_update_csv flushes the accumulated records after
\* every b-th processed file and once more at the end of the traversal for
\* the remaining n mod b files.
C22_FlushCadence ==
    (pc = "done" /\ exit = "returned") =>
        flushed = Cadence(Len(files), batch_size, 1)

\* C23: batch-report mode records failing links. A URL extracted from a file
\* is recorded as [file path, url] exactly when its liveness probe does not
\* return status 200: when the run has returned, the rows of the report are
\* the pairs of a file and a URL of it whose probe does not answer 200.
C23_RecordsFailingLinks ==
    (pc = "done" /\ exit = "returned") =>
        {<<batch_csv.content[k].file, batch_csv.content[k].url>> :
            k \in {j \in DOMAIN batch_csv.content :
                      batch_csv.content[j].kind = "row"}}
        = {fu \in (DOMAIN files) \X BatchUrls :
              /\ fu[2] \in extract_urls_from_text(files[fu[1]])
              /\ ~(~outcome[fu[2]].raised /\ outcome[fu[2]].status = 200)}

\* C31: repairing_empty_links checkpoints only durable work. A file's name is
\* appended to the checkpoint only after its repaired content has been
\* completely written and flushed to the file: once update_checkpoint has
\* returned for the file in flight, the file on disk holds the repaired
\* content, so that no interruption leaves a checkpointed file truncated.
C31_CheckpointAfterFlush ==
    (kind = "repair" /\ pc = "rclose") =>
        (Name(idx) \in ReadCheckpoint(cp) => files[idx] = buffer)

\* C32: check_and_remove_links frame. A step of a check_and_remove_links run
\* changes the content of a file only if it is the Markdown file in flight,
\* its bare name was not in the checkpoint when the run started, and one of
\* its extracted URLs is not live (its probe raised or did not answer 200):
\* non-Markdown files, checkpointed files and files whose URLs are all live
\* keep their content.
C32_CheckFrame ==
    [][kind = "check" =>
          \A i \in 1..NFiles :
              files'[i] # files[i] =>
                  /\ i = idx
                  /\ EndsWith(Name(i), MdExt)
                  /\ Name(i) \notin processed_files
                  /\ \E u \in DOMAIN outcome :
                         outcome[u].raised \/ outcome[u].status # 200]_vars

\* the first file, whose only URL answered 200, was read and checkpointed and
\* holds what it held, and the run goes on
C32_Witness ==
    /\ kinds = {"check"}
    /\ runs = 1
    /\ pc = "walk"
    /\ idx = 2
    /\ 1 \in checked
    /\ 1 \notin needs
    /\ files[1] = LinkText
    /\ Name(1) \in ReadCheckpoint(cp)

\* C33: empty-link repair loses no data. The bytes repairing_empty_links
\* leaves in a file are the bytes it found with each empty link [text]()
\* replaced by its text: a file without an empty link is left identical, and
\* no other character is dropped or altered by the read/write round trip.
C33_RepairLosesNoData ==
    op = "written" => result = RepairEmptyLinks(text, 1)

\* C34: the error log is lazy and append-only. No step creates or changes the
\* log except by logging one error: the first error creates it as the header
\* line followed by one line, every later error adds exactly one line after
\* the lines the log held, which stay as they were; the line names the file
\* in flight and the message. This holds for remove_failing_links_from_file
\* and repairing_empty_links alike.
C34_LazyAppendOnly ==
    [][errlog' # errlog =>
          /\ errlog'.exists
          /\ ~errlog.exists =>
                 /\ Len(errlog'.content) = 2
                 /\ errlog'.content[1] = LogHeader
          /\ errlog.exists =>
                 /\ Len(errlog'.content) = Len(errlog.content) + 1
                 /\ SubSeq(errlog'.content, 1, Len(errlog.content))
                        = errlog.content
          /\ errlog'.content[Len(errlog'.content)] =
                 [kind |-> "error", file |-> idx, msg |-> ErrorMessage]]_vars

\* the log holds its header, then an error of a check_and_remove_links run,
\* then an error of a repairing_empty_links run
C34_Witness ==
    /\ kinds = {"check", "repair"}
    /\ kind = "repair"
    /\ errlog.exists
    /\ Len(errlog.content) = 3
    /\ errlog.content[1] = LogHeader
    /\ errlog.content[2].kind = "error"
    /\ errlog.content[3].kind = "error"

\* the summaries of the posts of the first n pages, in order
RECURSIVE SummariesOf(_)
SummariesOf(ids) ==
    IF ids = <<>> THEN <<>>
    ELSE <<[ID |-> Head(ids), title |-> PostTitles[Head(ids)],
            URL |-> PostUrls[Head(ids)]]>> \o SummariesOf(Tail(ids))

\* C37: pagination loop termination.
\* get_wordpress_posts_by_category_and_write_to_file terminates once the site
\* answers a page with an empty post list or a status other than 200; the
\* page number grows by exactly one with every successful non-empty page and
\* not otherwise; and when the function has returned, after an empty page or
\* after a status other than 200, the file holds every post of every fetched
\* page exactly once, in order.
C37_ListingTerminates ==
    /\ <>(pc # "listing")
    /\ [][IF all_posts' # all_posts THEN page' = page + 1 ELSE page' = page]_vars
    /\ [](pc = "written" =>
            /\ json_file.exists
            /\ json_file.content
                   = SummariesOf(Flatten(SubSeq(pages, 1, page - 1))))

\* two pages were fetched, the third request answered another status, and
\* the file holds the posts of the two pages
C37_Witness ==
    /\ pc = "written"
    /\ op = "failed"
    /\ page = 3
    /\ Len(pages) = 3
    /\ Len(json_file.content) >= 3

\* the posts of the JSON file the file f matches by title, and by derived URL
PostsByTitle(f) ==
    {k \in DOMAIN json_file.content : json_file.content[k].title = FileTitle(f)}

PostsByUrl(f) ==
    {k \in DOMAIN json_file.content :
        json_file.content[k].URL = DerivedUrl(kind, f.name)}

\* C35: update_blog_posts_from_file checkpointing. In the pass of the loop
\* over a Markdown file that was not in the checkpoint when the run started
\* and that matches a post of the JSON file by title, else by derived URL,
\* update_wordpress_post is called once with the ID of such a post and the
\* file name is appended to the checkpoint, whatever the call returned; in
\* every other step (a file without a matching post, a file already in the
\* checkpoint, a file that is not Markdown) no call is made and the
\* checkpoint stays as it is.
C35_UpdateCheckpointing ==
    [][IF pc = "update" /\ idx \in DOMAIN UpdateFolder /\ idx' = idx + 1
       THEN LET f == UpdateFolder[idx]
                by == IF PostsByTitle(f) # {} THEN PostsByTitle(f)
                      ELSE PostsByUrl(f)
            IN  IF /\ EndsWith(f.name, MdExt)
                   /\ f.name \notin processed_files
                   /\ by # {}
                THEN /\ Len(calls') = Len(calls) + 1
                     /\ SubSeq(calls', 1, Len(calls)) = calls
                     /\ calls'[Len(calls')].file = f.name
                     /\ \E k \in by :
                            calls'[Len(calls')].post_id = json_file.content[k].ID
                     /\ cp'.exists
                     /\ cp'.content = cp.content \o f.name \o <<NL>>
                ELSE cp' = cp /\ calls' = calls
       ELSE cp' = cp /\ calls' = calls]_vars

\* in a second run a file matched by its URL only was sent, the call
\* answered an error and the file is checkpointed, while a file without a
\* matching post, reported in the first run too, is not
C35_Witness ==
    /\ runs = 2
    /\ pc = "update"
    /\ errors # <<>>
    /\ \A k \in DOMAIN errors : errors[k] \notin ReadCheckpoint(cp)
    /\ \E k \in DOMAIN calls :
           /\ calls[k].response = "error"
           /\ calls[k].file = <<"b", ".", "m", "d">>
           /\ calls[k].file \in ReadCheckpoint(cp)

\* C36: update_blog_posts_from_folder updates matching posts. When the
\* function has returned, for each Markdown file of the folder whose
\* extracted title equals the title of an existing post of the category,
\* update_wordpress_post was called with that post's ID and the returned list
\* holds an entry (filename, response) for the file.
C36_UpdatesMatchingPosts ==
    (pc = "folder done" /\ exit = "returned") =>
        \A i \in DOMAIN UpdateFolder : \A k \in DOMAIN all_posts :
            (/\ EndsWith(UpdateFolder[i].name, MdExt)
             /\ all_posts[k].title = get_title(UpdateFolder[i])) =>
                /\ \E c \in DOMAIN calls :
                       /\ calls[c].file = UpdateFolder[i].name
                       /\ calls[c].post_id = all_posts[k].ID
                /\ \E r \in DOMAIN responses :
                       responses[r][1] = UpdateFolder[i].name

====
